---- MODULE Spec2Model ----
(***************************************************************************)
(* Model of the ONU monitoring proxy: the RateLimiter (call gate) of       *)
(* src/utils/rateLimiter.js and ApiService.makeRequest of                  *)
(* src/services/apiService.js, run by several asynchronous callers on one  *)
(* Node.js event loop.                                                     *)
(*                                                                         *)
(* Time is counted in ticks; one hour is TicksPerHour ticks.  Date.now()   *)
(* is the variable now.  A caller suspended in sleep(ms) resumes in the    *)
(* tick its timer falls due: the clock does not pass a due timer.          *)
(***************************************************************************)
EXTENDS Integers, Sequences, FiniteSets, TLC

\* ---------------------------------------------------------------- bounds
TicksPerHour == 3          \* resolution of the clock: ticks in 60 minutes
MaxTime == 4               \* the clock runs from T0 to T0 + MaxTime
NumProcs == 3              \* concurrent callers on the event loop
MaxIssued == 3             \* upstream HTTP requests issued in one run
MaxRecords == 3            \* cap on the length of one class's timestamp list
MaxWords == 3              \* words in one raw status string
MaxTrack == 3              \* events logged in one run of direct trackStatusChange calls
MaxEvicted == 10           \* events one log is given beyond its capacity
MaxMisses == 2             \* OnuService calls that miss the cache in one run
MaxDevices == 3            \* devices in one upstream list
MaxPasses == 3             \* passes over the devices in one run
MaxLive == 2               \* upstream requests, and ticks in which calls start, of the runs followed to their end
MaxKeyed == 2              \* upstream requests, and calls recorded, in one run under any API key
MaxTtl == 2                \* largest ttl, in ticks, a direct cache.set is given

\* ----------------------------------------------------- configuration
apiDelay == 2              \* config.rateLimit.apiDelay, in ticks
gpsLimit == 2              \* config.rateLimit.gpsLimit
detailsLimit == 1          \* config.rateLimit.detailsLimit
HttpTimeout == 1           \* axios timeout: ticks an upstream request may stay open
ttlOnuStatus == 1          \* config.cache.ttl.onuStatus, in ticks
ttlOnuDetails == 2         \* config.cache.ttl.onuDetails, in ticks
ttlGps == 2                \* config.cache.ttl.gps, in ticks

HistoryCap == 50           \* events a transition log keeps
RecentCount == 20          \* events of each log getStatusHistory returns

Hour == TicksPerHour       \* 60 * 60 * 1000 ms
T0 == Hour + apiDelay      \* Date.now() when the service starts

Null == <<>>               \* null, as an absent value
Undefined == <<>>          \* a property the object does not have

Procs == 1..NumProcs
Restricted == {"gps", "details"}
EndpointTypes == {"gps", "details", "normal"}
Outcomes == {"ok", "empty", "statusFalse", "transport"}

VARIABLES now, lastCallTime, callCounts, pc, job, deadline, waitLog, issued, ret

\* the CacheService store, the OnuService transition logs, and the observation
\* of the latest call: its arguments, and what the cache and the logs were given
VARIABLES cache, statusHistory, arg, written, appended

\* the OnuService call each caller's upstream request belongs to, and the
\* number of OnuService calls that missed the cache
VARIABLES call, misses

\* the API key the ApiService was constructed with
VARIABLE apiKey

limiterVars == <<lastCallTime, callCounts, pc, job, deadline, waitLog, issued, apiKey>>

onuVars == <<call, misses>>

svcVars == <<cache, statusHistory, arg, written, appended, call, misses>>

vars == <<now, lastCallTime, callCounts, pc, job, deadline, waitLog, issued, ret,
          cache, statusHistory, arg, written, appended, call, misses, apiKey>>

\* -------------------------------------------------------- pure helpers

\* Math.ceil(a / b) for b > 0
Ceil(a, b) == -((-a) \div b)

\* Math.ceil((resetTime - now) / (60 * 1000)): ticks converted to whole minutes
WaitMinutes(resetTime, t) == Ceil((resetTime - t) * 60, TicksPerHour)

\* ['gps', 'details'].includes(endpointType)
IsRestricted(endpointType) == endpointType \in Restricted

\* Prune with the boundary on the wrong side: a call exactly 60 minutes old stays
Prune_KeepsBoundary(list, t) ==
  LET oneHourAgo == t - Hour
  IN SelectSeq(list, LAMBDA timestamp : timestamp >= oneHourAgo)

\* callCounts[endpointType].filter(timestamp => timestamp > oneHourAgo)
Prune(list, t) ==
  LET oneHourAgo == t - Hour
  IN SelectSeq(list, LAMBDA timestamp : timestamp > oneHourAgo)

\* endpointType === 'gps' ? this.gpsLimit : this.detailsLimit
Limit(endpointType) == IF endpointType = "gps" THEN gpsLimit ELSE detailsLimit

\* the record of the latest step: the operation, its caller, its endpoint class,
\* how it ended, the waitMinutes and the value it returned (an absent value is
\* the empty sequence, a number n is <<n>>), and the number of timestamps it
\* removed from a class list
Ret(op, proc, type, out, wm, val, removed) ==
  [op |-> op, proc |-> proc, type |-> type, out |-> out, waitMinutes |-> wm,
   value |-> val, removed |-> removed]

\* RateLimiter.canCallEndpoint and getRemainingCalls: the lists they leave behind
CanCallCounts(cc, endpointType, t) ==
  IF ~IsRestricted(endpointType) THEN cc
  ELSE [cc EXCEPT ![endpointType] = Prune(cc[endpointType], t)]

\* the number of timestamps that pruning the class list takes away
Removed(cc, endpointType, t) ==
  IF ~IsRestricted(endpointType) THEN 0
  ELSE Len(cc[endpointType]) - Len(Prune(cc[endpointType], t))

\* CanCallResult with currentCount > limit: one call too many is let through
CanCallResult_OffByOne(cc, endpointType, t) ==
  IF ~IsRestricted(endpointType) THEN [allowed |-> TRUE, waitMinutes |-> Undefined, resetTime |-> Undefined]
  ELSE LET list == Prune(cc[endpointType], t)
           currentCount == Len(list)
       IN IF currentCount > Limit(endpointType)
          THEN [allowed |-> FALSE, waitMinutes |-> <<WaitMinutes(list[1] + Hour, t)>>,
                resetTime |-> <<list[1] + Hour>>]
          ELSE [allowed |-> TRUE, waitMinutes |-> Undefined, resetTime |-> Undefined]

\* CanCallResult taking the newest call of the window for the oldest
CanCallResult_Newest(cc, endpointType, t) ==
  IF ~IsRestricted(endpointType)
  THEN [allowed |-> TRUE, waitMinutes |-> Undefined, resetTime |-> Undefined]
  ELSE LET list == Prune(cc[endpointType], t)
           currentCount == Len(list)
       IN IF currentCount >= Limit(endpointType)
          THEN [allowed |-> FALSE,
                waitMinutes |-> <<WaitMinutes(list[Len(list)] + Hour, t)>>,
                resetTime |-> <<list[Len(list)] + Hour>>]
          ELSE [allowed |-> TRUE, waitMinutes |-> Undefined, resetTime |-> Undefined]

\* RateLimiter.canCallEndpoint: the object it returns
CanCallResult(cc, endpointType, t) ==
  IF ~IsRestricted(endpointType) THEN [allowed |-> TRUE, waitMinutes |-> Undefined, resetTime |-> Undefined]
  ELSE LET list == Prune(cc[endpointType], t)
           currentCount == Len(list)
       IN IF currentCount >= Limit(endpointType)
          THEN [allowed |-> FALSE, waitMinutes |-> <<WaitMinutes(list[1] + Hour, t)>>,
                resetTime |-> <<list[1] + Hour>>]
          ELSE [allowed |-> TRUE, waitMinutes |-> Undefined, resetTime |-> Undefined]

\* RecordCounts without the class test: a list is created for any class
RecordCounts_AnyClass(cc, endpointType, t) ==
  IF endpointType \in DOMAIN cc
  THEN [cc EXCEPT ![endpointType] = Append(cc[endpointType], t)]
  ELSE cc @@ (endpointType :> <<t>>)

\* RateLimiter.recordCall: the lists after the call
RecordCounts(cc, endpointType, t) ==
  IF IsRestricted(endpointType)
  THEN [cc EXCEPT ![endpointType] = Append(cc[endpointType], t)]
  ELSE cc

\* RemainingValue without the pruning: aged-out calls still count
RemainingValue_NoPrune(cc, endpointType, t) ==
  IF ~IsRestricted(endpointType) THEN Null
  ELSE <<Limit(endpointType) - Len(cc[endpointType])>>

\* RateLimiter.getRemainingCalls: the value it returns
RemainingValue(cc, endpointType, t) ==
  IF ~IsRestricted(endpointType) THEN Null
  ELSE <<Limit(endpointType) - Len(Prune(cc[endpointType], t))>>

\* MustWait one tick short
MustWait_Short(timeSinceLastCall) == timeSinceLastCall < apiDelay - 1

\* waitForNextCall: timeSinceLastCall < this.apiDelay
MustWait(timeSinceLastCall) == timeSinceLastCall < apiDelay

\* a wait counted from the call instead of from lastCallTime
WaitTime_FromNow(timeSinceLastCall) == apiDelay + timeSinceLastCall

\* waitForNextCall: waitTime = this.apiDelay - timeSinceLastCall
WaitTime(timeSinceLastCall) == apiDelay - timeSinceLastCall

\* the return times of a caller's latest two direct waitForNextCall calls
Logged(log, t) == IF Len(log) < 2 THEN Append(log, t) ELSE <<log[2], t>>

\* ------------------------------------------------------ state records

\* a JavaScript argument: a string, as its sequence of characters, null or undefined
JsString(text) == [kind |-> "string", text |-> text]
JsNull == [kind |-> "null", text |-> <<>>]
JsUndefined == [kind |-> "undefined", text |-> <<>>]

\* if (!x): null, undefined and the empty string are falsy
Falsy(x) == x.kind # "string" \/ x.text = <<>>

\* a thrown error, by its message
Err(message) == [tag |-> "error", val |-> message]

\* config.apiKey as the environment may leave it: unset, empty, the
\* placeholder of .env.example, or a key
K_placeholder == <<"y", "o", "u", "r", "_", "a", "p", "i", "_", "k", "e", "y", "_", "h", "e", "r", "e">>
K_key == <<"k", "1">>
ApiKeys == {JsUndefined, JsString(<<>>), JsString(K_placeholder), JsString(K_key)}

\* 'Invalid API Key. Please configure API_KEY in .env file'
M_configure_key ==
  <<"I", "n", "v", "a", "l", "i", "d", " ", "A", "P", "I", " ", "K", "e", "y", ".", " ", "P", "l", "e", "a", "s", "e", " ", "c", "o", "n", "f", "i", "g", "u", "r", "e">>
    \o <<" ", "A", "P", "I", "_", "K", "E", "Y", " ", "i", "n", " ", ".", "e", "n", "v", " ", "f", "i", "l", "e">>

\* !this.apiKey || this.apiKey === 'your_api_key_here'
InvalidKey(key) == Falsy(key) \/ key = JsString(K_placeholder)

\* the part of the state one synchronous run of a caller can change
Cur ==
  [lastCallTime |-> lastCallTime, callCounts |-> callCounts, pc |-> pc, job |-> job,
   deadline |-> deadline, waitLog |-> waitLog, issued |-> issued]

Install(s) ==
  /\ lastCallTime' = s.lastCallTime
  /\ callCounts' = s.callCounts
  /\ pc' = s.pc
  /\ job' = s.job
  /\ deadline' = s.deadline
  /\ waitLog' = s.waitLog
  /\ issued' = s.issued
  /\ apiKey' = apiKey

\* waitForNextCall line 25 (this.lastCallTime = Date.now()); a direct call
\* returns, a makeRequest goes on to client.get(endpoint): the upstream request
\* is issued
Proceed(s, p) ==
  LET s1 == [s EXCEPT !.lastCallTime = now]
  IN IF s.job[p] = "wait"
     THEN [s1 EXCEPT !.pc[p] = "idle", !.job[p] = "none", !.deadline[p] = 0,
                     !.waitLog[p] = Logged(s.waitLog[p], now)]
     ELSE [s1 EXCEPT !.pc[p] = "http", !.deadline[p] = now + HttpTimeout,
                     !.issued = Append(s.issued, [t |-> now, type |-> s.job[p],
                                                  proc |-> p, state |-> "open"])]

\* waitForNextCall lines 16-23: run up to the first suspension
EnterWait(s, p, j) ==
  LET timeSinceLastCall == now - s.lastCallTime
      s1 == [s EXCEPT !.job[p] = j]
  IN IF MustWait(timeSinceLastCall)
     THEN [s1 EXCEPT !.pc[p] = "sleeping", !.deadline[p] = now + WaitTime(timeSinceLastCall)]
     ELSE Proceed(s1, p)

\* the log of upstream requests once the open request of caller p has settled
Settled(log, p, outcome) ==
  [i \in DOMAIN log |->
     IF log[i].proc = p /\ log[i].state = "open"
     THEN [log[i] EXCEPT !.state = outcome] ELSE log[i]]

\* a quota check that counts the requests of the class still under way
Allowed_CountsOpen(s, endpointType) ==
  \/ endpointType = "normal"
  \/ /\ CanCallResult(s.callCounts, endpointType, now).allowed
     /\ Len(Prune(s.callCounts[endpointType], now))
          + Cardinality({p \in Procs : s.pc[p] # "idle" /\ s.job[p] = endpointType})
          < Limit(endpointType)

\* makeRequest lines 86-88: the quota check of a restricted class
Allowed(s, endpointType) ==
  endpointType = "normal" \/ CanCallResult(s.callCounts, endpointType, now).allowed

\* makeRequest without the quota check
BeginRequest_NoQuotaCheck(s, p, endpointType) == EnterWait(s, p, endpointType)

\* makeRequest, were it to check the quota before the API key
BeginRequest_KeyAfterQuota(s, p, endpointType) ==
  LET s1 == IF endpointType = "normal" THEN s
            ELSE [s EXCEPT !.callCounts = CanCallCounts(s.callCounts, endpointType, now)]
  IN IF Allowed(s, endpointType) /\ ~InvalidKey(apiKey)
     THEN EnterWait(s1, p, endpointType) ELSE s1

\* makeRequest lines 80-99: API key check, quota check, spacing wait, client.get
BeginRequest(s, p, endpointType) ==
  LET s1 == IF endpointType = "normal" THEN s
            ELSE [s EXCEPT !.callCounts = CanCallCounts(s.callCounts, endpointType, now)]
  IN IF InvalidKey(apiKey) THEN s
     ELSE IF Allowed(s, endpointType) THEN EnterWait(s1, p, endpointType) ELSE s1

\* what the synchronous part of makeRequest ends in
BeginRet(s, p, endpointType) ==
  LET removed == IF endpointType = "normal" THEN 0
                 ELSE Removed(s.callCounts, endpointType, now)
  IN IF InvalidKey(apiKey)
     THEN Ret("makeRequest", p, endpointType, "invalidKey", Undefined,
              <<Err(M_configure_key)>>, 0)
     ELSE IF ~Allowed(s, endpointType)
     THEN Ret("makeRequest", p, endpointType, "rateLimited",
              CanCallResult(s.callCounts, endpointType, now).waitMinutes, Null, removed)
     ELSE IF MustWait(now - s.lastCallTime)
          THEN Ret("makeRequest", p, endpointType, "sleeping", Undefined, Null, removed)
          ELSE Ret("makeRequest", p, endpointType, "issued", Undefined, Null, removed)

\* makeRequest, were it to send the request again when it fails in transport
AfterResponse_Retry(s, p, outcome) ==
  IF outcome = "transport"
  THEN [s EXCEPT !.deadline[p] = now + HttpTimeout,
                 !.issued = Append(Settled(@, p, outcome),
                                   [t |-> now, type |-> s.job[p], proc |-> p, state |-> "open"])]
  ELSE [s EXCEPT !.callCounts = RecordCounts(@, s.job[p], now),
                 !.pc[p] = "idle", !.job[p] = "none", !.deadline[p] = 0,
                 !.issued = Settled(@, p, outcome)]

\* makeRequest lines 99-145 once client.get has settled for caller p: a
\* transport failure is rethrown; a response is recorded, then validated
AfterResponse(s, p, outcome) ==
  [s EXCEPT !.callCounts = IF outcome = "transport" THEN @
                           ELSE RecordCounts(@, s.job[p], now),
            !.pc[p] = "idle", !.job[p] = "none", !.deadline[p] = 0,
            !.issued = Settled(@, p, outcome)]

\* a caller slot that serves no OnuService call
NoCall ==
  [op |-> "none", x |-> <<>>, stage |-> 0, lead |-> 0, left |-> 0,
   failed |-> FALSE, acc |-> <<>>, acc2 |-> <<>>]

\* makeRequest calls that are between their quota check and their response
InFlight == Cardinality({p \in Procs : pc[p] # "idle" /\ job[p] # "wait"})

\* callers are anonymous: a new makeRequest takes the lowest free slot
Free(p) == pc[p] = "idle" /\ \A q \in Procs : q < p => pc[q] # "idle"

\* --------------------------------------------------------------- state

InitBase ==
  /\ now = T0
  /\ lastCallTime = 0
  /\ callCounts = [c \in Restricted |-> <<>>]
  /\ pc = [p \in Procs |-> "idle"]
  /\ job = [p \in Procs |-> "none"]
  /\ deadline = [p \in Procs |-> 0]
  /\ waitLog = [p \in Procs |-> <<>>]
  /\ issued = <<>>
  /\ ret = Ret("init", 0, "none", "none", Undefined, Null, 0)
  /\ cache = <<>>
  /\ statusHistory = [recentLos |-> <<>>, recentPowerFail |-> <<>>]
  /\ written = <<>>
  /\ appended = [recentLos |-> 0, recentPowerFail |-> 0]
  /\ call = [p \in Procs |-> NoCall]
  /\ misses = 0

\* the environment carries an API key
Configured == apiKey = JsString(K_key)

\* the service just constructed
Init == InitBase /\ Configured /\ arg = <<>>

\* ------------------------------------------------------------- actions

\* the wall clock advances; it passes neither a due timer nor the HTTP timeout
Advance ==
  /\ now < T0 + MaxTime
  /\ \A p \in Procs : pc[p] # "idle" => now < deadline[p]
  /\ now' = now + 1
  /\ ret' = Ret("tick", 0, "none", "none", Undefined, Null, 0)
  /\ UNCHANGED <<lastCallTime, callCounts, pc, job, deadline, waitLog, issued, apiKey>>
  /\ UNCHANGED svcVars

\* rateLimiter.recordCall(endpointType), called directly
RecordCall(endpointType) ==
  /\ IsRestricted(endpointType) => Len(callCounts[endpointType]) < MaxRecords
  /\ callCounts' = RecordCounts(callCounts, endpointType, now)
  /\ ret' = Ret("recordCall", 0, endpointType, "returned", Undefined, Null, 0)
  /\ UNCHANGED <<now, lastCallTime, pc, job, deadline, waitLog, issued, apiKey>>
  /\ UNCHANGED svcVars

\* rateLimiter.canCallEndpoint(endpointType), called directly
CanCallEndpoint(endpointType) ==
  LET r == CanCallResult(callCounts, endpointType, now)
  IN /\ callCounts' = CanCallCounts(callCounts, endpointType, now)
     /\ ret' = Ret("canCallEndpoint", 0, endpointType,
                   IF r.allowed THEN "allowed" ELSE "denied", r.waitMinutes, Null,
                   Removed(callCounts, endpointType, now))
     /\ UNCHANGED <<now, lastCallTime, pc, job, deadline, waitLog, issued, apiKey>>
     /\ UNCHANGED svcVars

\* rateLimiter.getRemainingCalls(endpointType), called directly and by /health
GetRemainingCalls(endpointType) ==
  /\ callCounts' = CanCallCounts(callCounts, endpointType, now)
  /\ ret' = Ret("getRemainingCalls", 0, endpointType, "returned", Undefined,
                RemainingValue(callCounts, endpointType, now),
                Removed(callCounts, endpointType, now))
  /\ UNCHANGED <<now, lastCallTime, pc, job, deadline, waitLog, issued, apiKey>>
  /\ UNCHANGED svcVars

\* rateLimiter.waitForNextCall(), called directly by caller p
WaitForNextCall(p) ==
  /\ pc[p] = "idle"
  /\ Install(EnterWait(Cur, p, "wait"))
  /\ ret' = Ret("waitForNextCall", p, "none",
                IF MustWait(now - lastCallTime) THEN "sleeping" ELSE "returned",
                Undefined, Null, 0)
  /\ UNCHANGED now
  /\ UNCHANGED svcVars

\* apiService.makeRequest(endpoint, params, endpointType) up to its first suspension
MakeRequest(p, endpointType) ==
  /\ Free(p)
  /\ Len(issued) + InFlight < MaxIssued
  /\ Install(BeginRequest(Cur, p, endpointType))
  /\ ret' = BeginRet(Cur, p, endpointType)
  /\ UNCHANGED now
  /\ UNCHANGED svcVars

\* the sleep of caller p ends: lastCallTime is set; a direct waitForNextCall
\* returns, a makeRequest issues its upstream request
Wake(p) ==
  /\ pc[p] = "sleeping"
  /\ now >= deadline[p]
  /\ Install(Proceed(Cur, p))
  /\ ret' = IF job[p] = "wait"
            THEN Ret("waitForNextCall", p, "none", "returned", Undefined, Null, 0)
            ELSE Ret("makeRequest", p, job[p], "resumed", Undefined, Null, 0)
  /\ UNCHANGED now
  /\ UNCHANGED svcVars

\* client.get settles for caller p (makeRequest lines 99-145): a transport
\* failure is rethrown; a response is recorded, then validated
Respond(p, outcome) ==
  /\ pc[p] = "http"
  /\ Install(AfterResponse(Cur, p, outcome))
  /\ ret' = Ret("makeRequest", p, job[p],
                IF outcome = "ok" THEN "returned" ELSE outcome, Undefined, Null, 0)
  /\ UNCHANGED now
  /\ UNCHANGED svcVars

\* the quota half of the RateLimiter driven directly, as its unit tests drive it
NextQuota ==
  \/ Advance
  \/ \E c \in EndpointTypes : RecordCall(c)
  \/ \E c \in EndpointTypes : CanCallEndpoint(c)
  \/ \E c \in EndpointTypes : GetRemainingCalls(c)

SpecQuota == Init /\ [][NextQuota]_vars

\* the spacing half of the RateLimiter driven directly by several callers
NextWait ==
  \/ Advance
  \/ \E p \in Procs : WaitForNextCall(p)
  \/ \E p \in Procs : Wake(p)

SpecWait == Init /\ [][NextWait]_vars

\* the RateLimiter driven by the service: makeRequest callers and /health
NextApi ==
  \/ Advance
  \/ \E c \in Restricted : GetRemainingCalls(c)
  \/ \E p \in Procs, c \in EndpointTypes : MakeRequest(p, c)
  \/ \E p \in Procs : Wake(p)
  \/ \E p \in Procs, o \in Outcomes : Respond(p, o)

SpecApi == Init /\ [][NextApi]_vars

\* the service constructed whatever the environment holds for API_KEY
InitKey == InitBase /\ apiKey \in ApiKeys /\ arg = <<>>

\* makeRequest callers and a few calls recorded directly, under any API key
NextKey ==
  \/ Advance
  \/ \E c \in Restricted :
       /\ Len(callCounts["gps"]) + Len(callCounts["details"]) < MaxKeyed
       /\ RecordCall(c)
  \/ \E p \in Procs, c \in EndpointTypes :
       /\ Len(issued) + InFlight < MaxKeyed
       /\ MakeRequest(p, c)
  \/ \E p \in Procs : Wake(p)
  \/ \E p \in Procs, o \in Outcomes : Respond(p, o)

SpecKey == InitKey /\ [][NextKey]_vars

\* the clock of the runs that are followed to their end: it does not stop
\* while a timer or an upstream request is pending
LiveAdvance ==
  /\ now < T0 + MaxLive \/ \E p \in Procs : pc[p] # "idle"
  /\ \A p \in Procs : pc[p] # "idle" => now < deadline[p]
  /\ now' = now + 1
  /\ ret' = Ret("tick", 0, "none", "none", Undefined, Null, 0)
  /\ UNCHANGED <<lastCallTime, callCounts, pc, job, deadline, waitLog, issued, apiKey>>
  /\ UNCHANGED svcVars

\* callers of waitForNextCall, once each, and of makeRequest, starting while
\* the clock is below T0 + MaxLive
NextLive ==
  \/ LiveAdvance
  \/ \E p \in Procs :
       /\ now < T0 + MaxLive
       /\ waitLog[p] = <<>>
       /\ WaitForNextCall(p)
  \/ \E p \in Procs, c \in EndpointTypes :
       /\ now < T0 + MaxLive
       /\ Len(issued) + InFlight < MaxLive
       /\ MakeRequest(p, c)
  \/ \E p \in Procs : Wake(p)
  \/ \E p \in Procs, o \in Outcomes : Respond(p, o)

\* the event loop runs every timer that is due, the clock goes on, and
\* client.get settles: the upstream answers or axios times out
Fairness ==
  /\ WF_vars(LiveAdvance)
  /\ \A p \in Procs : WF_vars(Wake(p))
  /\ \A p \in Procs : WF_vars(\E o \in Outcomes : Respond(p, o))

SpecLive == Init /\ [][NextLive]_vars /\ Fairness

\* ------------------------------------------------------- CacheService

\* a stored JavaScript value: a string, or an object (arrays included)
Str(s) == [tag |-> "str", val |-> s]
Obj(x) == [tag |-> "obj", val |-> x]

\* the keys, values and faults the CacheService is driven with directly
CacheKeys == {"k1", "k2"}
CacheValues == {Str(""), Str("a"), Str("b")}
Ttls == 0..MaxTtl

\* if (value): an empty string is falsy, an object or an array never is
Truthy(v) == v.tag # "str" \/ v.val # ""

\* ttl || this.config.ttl.onuStatus
ActualTtl(ttl) == IF ttl # 0 THEN ttl ELSE ttlOnuStatus

\* an entry that is never dropped for its age
StoreLive_NoExpiry(store, key, t) == key \in DOMAIN store

\* NodeCache serves an entry until Date.now() has passed its expiry time
StoreLive(store, key, t) == key \in DOMAIN store /\ t <= store[key].t

\* NodeCache.get(key): the value of a live entry, undefined otherwise
StoreGet(store, key, t) ==
  IF StoreLive(store, key, t) THEN <<store[key].v>> ELSE Undefined

\* NodeCache.del(key)
StoreDel(store, key) == [k \in DOMAIN store \ {key} |-> store[k]]

\* NodeCache.get(key) drops the entry it finds expired
StoreAfterGet(store, key, t) ==
  IF key \in DOMAIN store /\ ~StoreLive(store, key, t) THEN StoreDel(store, key) ELSE store

\* NodeCache.set(key, value, ttl): the entry expires ttl after now
StoreSet(store, key, v, ttl, t) ==
  [k \in DOMAIN store \cup {key} |->
     IF k = key THEN [v |-> v, t |-> t + ttl] ELSE store[k]]

\* get without its catch: a fault of the store reaches the caller
CacheGetResult_NoCatch(store, key, t, fault) ==
  LET value == StoreGet(store, key, t)
  IN IF fault THEN [out |-> "raised", value |-> Null]
     ELSE IF value # Undefined /\ Truthy(value[1])
          THEN [out |-> "returned", value |-> value]
          ELSE [out |-> "returned", value |-> Null]

\* CacheService.get(key): the value if (value), null on a miss and in the catch
CacheGetResult(store, key, t, fault) ==
  LET value == StoreGet(store, key, t)
  IN IF fault THEN [out |-> "returned", value |-> Null]
     ELSE IF value # Undefined /\ Truthy(value[1])
          THEN [out |-> "returned", value |-> value]
          ELSE [out |-> "returned", value |-> Null]

\* CacheService.set, del, flush: true, or false in the catch
CacheWriteResult(fault) == [out |-> "returned", value |-> <<~fault>>]

\* CacheService.set(key, value, ttl): the store after it
CacheSetStore(store, key, v, ttl, t, fault) ==
  IF fault THEN store ELSE StoreSet(store, key, v, ActualTtl(ttl), t)

\* the latest value each key was given and not since deleted, with its ttl
\* argument and the time of the call
WrittenSet(w, key, v, ttl, t, fault) ==
  IF fault THEN w
  ELSE [k \in DOMAIN w \cup {key} |->
          IF k = key THEN [value |-> v, ttl |-> ttl, at |-> t] ELSE w[k]]

\* cacheService.get(key), called directly
CacheGet(key, fault) ==
  LET r == CacheGetResult(cache, key, now, fault)
  IN /\ cache' = IF fault THEN cache ELSE StoreAfterGet(cache, key, now)
     /\ arg' = [key |-> key, fault |-> fault]
     /\ ret' = Ret("cache.get", 0, "none", r.out, Undefined, r.value, 0)
     /\ UNCHANGED <<now, statusHistory, written, appended>>
     /\ UNCHANGED limiterVars
     /\ UNCHANGED onuVars

\* cacheService.set(key, value, ttl), called directly
CacheSet(key, v, ttl, fault) ==
  LET r == CacheWriteResult(fault)
  IN /\ cache' = CacheSetStore(cache, key, v, ttl, now, fault)
     /\ written' = WrittenSet(written, key, v, ttl, now, fault)
     /\ arg' = [key |-> key, fault |-> fault]
     /\ ret' = Ret("cache.set", 0, "none", r.out, Undefined, r.value, 0)
     /\ UNCHANGED <<now, statusHistory, appended>>
     /\ UNCHANGED limiterVars
     /\ UNCHANGED onuVars

\* cacheService.del(key), called directly
CacheDel(key, fault) ==
  LET r == CacheWriteResult(fault)
  IN /\ cache' = IF fault THEN cache ELSE StoreDel(cache, key)
     /\ written' = IF fault THEN written ELSE StoreDel(written, key)
     /\ arg' = [key |-> key, fault |-> fault]
     /\ ret' = Ret("cache.del", 0, "none", r.out, Undefined, r.value, 0)
     /\ UNCHANGED <<now, statusHistory, appended>>
     /\ UNCHANGED limiterVars
     /\ UNCHANGED onuVars

\* cacheService.flush(), called directly
CacheFlush(fault) ==
  LET r == CacheWriteResult(fault)
  IN /\ cache' = IF fault THEN cache ELSE <<>>
     /\ written' = IF fault THEN written ELSE <<>>
     /\ arg' = [key |-> "", fault |-> fault]
     /\ ret' = Ret("cache.flush", 0, "none", r.out, Undefined, r.value, 0)
     /\ UNCHANGED <<now, statusHistory, appended>>
     /\ UNCHANGED limiterVars
     /\ UNCHANGED onuVars

\* the CacheService driven directly while the clock runs
NextCache ==
  \/ Advance
  \/ \E k \in CacheKeys, f \in BOOLEAN : CacheGet(k, f)
  \/ \E k \in CacheKeys, v \in CacheValues, ttl \in Ttls, f \in BOOLEAN : CacheSet(k, v, ttl, f)
  \/ \E k \in CacheKeys, f \in BOOLEAN : CacheDel(k, f)
  \/ \E f \in BOOLEAN : CacheFlush(f)

SpecCache == Init /\ [][NextCache]_vars

\* ------------------------------------------ OnuService.determineOnuStatus

\* the four operational statuses
Statuses == {"Online", "LOS", "Power Fail", "Offline"}

LowerCase ==
  <<"a", "b", "c", "d", "e", "f", "g", "h", "i", "j", "k", "l", "m",
    "n", "o", "p", "q", "r", "s", "t", "u", "v", "w", "x", "y", "z">>

UpperCase ==
  <<"A", "B", "C", "D", "E", "F", "G", "H", "I", "J", "K", "L", "M",
    "N", "O", "P", "Q", "R", "S", "T", "U", "V", "W", "X", "Y", "Z">>

ToLowerChar(c) ==
  IF \E i \in DOMAIN UpperCase : UpperCase[i] = c
  THEN LowerCase[CHOOSE i \in DOMAIN UpperCase : UpperCase[i] = c]
  ELSE c

ToUpperChar(c) ==
  IF \E i \in DOMAIN LowerCase : LowerCase[i] = c
  THEN UpperCase[CHOOSE i \in DOMAIN LowerCase : LowerCase[i] = c]
  ELSE c

\* String.prototype.toLowerCase
ToLowerCase(s) == [i \in 1..Len(s) |-> ToLowerChar(s[i])]

\* String.prototype.toUpperCase
ToUpperCase(s) == [i \in 1..Len(s) |-> ToUpperChar(s[i])]

\* String.prototype.includes
Includes(s, sub) ==
  \E i \in 0..(Len(s) - Len(sub)) : SubSeq(s, i + 1, i + Len(sub)) = sub

RECURSIVE TrimStart(_)
TrimStart(s) == IF s # <<>> /\ Head(s) = " " THEN TrimStart(Tail(s)) ELSE s

RECURSIVE TrimEnd(_)
TrimEnd(s) ==
  IF s # <<>> /\ s[Len(s)] = " " THEN TrimEnd(SubSeq(s, 1, Len(s) - 1)) ELSE s

\* String.prototype.trim
Trim(s) == TrimEnd(TrimStart(s))

\* JavaScript numbers, kept to one decimal digit, in tenths; NaN; and null
\* where the code puts null in the place of a number
JsNumber(n) == [is |-> "number", tenths |-> n]
JsNaN == [is |-> "NaN", tenths |-> 0]
NoNumber == [is |-> "null", tenths |-> 0]

\* a number in a condition: 0 and NaN are falsy, as null is
NumberTruthy(x) == x.is = "number" /\ x.tenths # 0

\* isNaN(x) for a number or null: Number(null) is 0
IsNaN(x) == x.is = "NaN"

DigitChars == <<"0", "1", "2", "3", "4", "5", "6", "7", "8", "9">>
IsDigit(c) == \E i \in DOMAIN DigitChars : DigitChars[i] = c
DigitValue(c) == (CHOOSE i \in DOMAIN DigitChars : DigitChars[i] = c) - 1

\* the longest prefix of digits of a text
RECURSIVE DigitPrefix(_)
DigitPrefix(s) ==
  IF s # <<>> /\ IsDigit(Head(s)) THEN <<Head(s)>> \o DigitPrefix(Tail(s)) ELSE <<>>

\* the value of a text of digits
RECURSIVE DigitsValue(_)
DigitsValue(ds) ==
  IF ds = <<>> THEN 0 ELSE 10 * DigitsValue(SubSeq(ds, 1, Len(ds) - 1)) + DigitValue(ds[Len(ds)])

\* the digits after the point of a text that goes on after the whole part
FractionOf(rest) ==
  IF rest # <<>> /\ Head(rest) = "." THEN DigitPrefix(Tail(rest)) ELSE <<>>

\* the number of a whole part and a fraction; NaN when neither holds a digit
NumberOf(whole, frac) ==
  IF whole = <<>> /\ frac = <<>> THEN JsNaN
  ELSE JsNumber(10 * DigitsValue(whole) + (IF frac = <<>> THEN 0 ELSE DigitValue(frac[1])))

\* the number at the start of a text, given its whole part
AfterWhole(whole, body) ==
  NumberOf(whole, FractionOf(SubSeq(body, Len(whole) + 1, Len(body))))

\* the number at the start of a text without sign
Unsigned(body) == AfterWhole(DigitPrefix(body), body)

Negated(x) == IF x.is = "number" THEN JsNumber(0 - x.tenths) ELSE x

\* the number at the start of a text: sign, digits, point, digits
Signed(t) ==
  IF t # <<>> /\ Head(t) \in {"-", "+"}
  THEN (IF Head(t) = "-" THEN Negated(Unsigned(Tail(t))) ELSE Unsigned(Tail(t)))
  ELSE Unsigned(t)

\* parseFloat(x): the argument as a string ('undefined', 'null' for absent
\* ones, which hold no number), leading blanks skipped, then the longest
\* prefix sign digits . digits; NaN when that prefix holds no digit
ParseFloat(x) ==
  IF x.kind # "string" THEN JsNaN ELSE Signed(TrimStart(x.text))

\* the string literals of determineOnuStatus
S_online == <<"o", "n", "l", "i", "n", "e">>
S_offline == <<"o", "f", "f", "l", "i", "n", "e">>
S_los == <<"l", "o", "s">>
S_power == <<"p", "o", "w", "e", "r">>
S_power_fail == <<"p", "o", "w", "e", "r", " ", "f", "a", "i", "l">>
S_signal == <<"s", "i", "g", "n", "a", "l">>
S_dying_gasp == <<"d", "y", "i", "n", "g", "-", "g", "a", "s", "p">>

\* the if-chain on the lower-cased status string, then the lastDownCause fallback
StatusOfLowered(status, lastDownCause) ==
  IF status = S_online THEN "Online"
  ELSE IF status = S_los \/ Includes(status, S_los) THEN "LOS"
  ELSE IF status = S_power_fail \/ Includes(status, S_power) THEN "Power Fail"
  ELSE IF status = S_offline THEN "Offline"
  ELSE IF ~Falsy(lastDownCause)
       THEN LET cause == ToLowerCase(lastDownCause.text)
            IN IF Includes(cause, S_los) \/ Includes(cause, S_signal) THEN "LOS"
               ELSE IF Includes(cause, S_power) \/ Includes(cause, S_dying_gasp)
                    THEN "Power Fail"
                    ELSE "Offline"
       ELSE "Offline"

\* determineOnuStatus comparing the status string as it came, in its own case
DetermineOnuStatus_CaseSensitive(statusString, lastDownCause) ==
  IF Falsy(statusString) THEN "Offline"
  ELSE StatusOfLowered(statusString.text, lastDownCause)

\* determineOnuStatus(statusString, lastDownCause = null) of services/onuService.js
DetermineOnuStatus(statusString, lastDownCause) ==
  IF Falsy(statusString) THEN "Offline"
  ELSE StatusOfLowered(ToLowerCase(statusString.text), lastDownCause)

\* determineOnuStatus(statusString) of the later version: trimmed, no fallback
DetermineOnuStatusTrimmed(statusString) ==
  IF Falsy(statusString) THEN "Offline"
  ELSE StatusOfLowered(Trim(ToLowerCase(statusString.text)), JsNull)

\* getStatusColor(status)
GetStatusColor(status) ==
  CASE status = "Online" -> "#28a745"
    [] status = "LOS" -> "#dc3545"
    [] status = "Power Fail" -> "#ffc107"
    [] OTHER -> "#6c757d"

\* the words raw status strings are assembled from
T_space == <<" ">>
T_detected == <<"-", "d", "e", "t", "e", "c", "t", "e", "d">>
T_fail == <<"f", "a", "i", "l">>
T_garbage == <<"g", "a", "r", "b", "a", "g", "e">>
T_s == <<"s">>

\* the status strings of the extended tests
T_working == <<"w", "o", "r", "k", "i", "n", "g">>
T_up == <<"u", "p">>
T_loss_of_signal == <<"l", "o", "s", "s", " ", "o", "f", " ", "s", "i", "g", "n", "a", "l">>
T_powerfail == <<"p", "o", "w", "e", "r", "f", "a", "i", "l">>
T_dyinggasp == <<"d", "y", "i", "n", "g", "g", "a", "s", "p">>
SynonymWords == {T_working, T_up, T_loss_of_signal, T_powerfail, S_dying_gasp, T_dyinggasp}

StatusWords == {S_online, S_offline, S_los, S_power}
FillerWords == {T_space, T_detected, T_fail, T_garbage, T_s}
Words == StatusWords \cup FillerWords

\* the raw status strings: up to max words, written in one of three cases
WordLists(max) == UNION {[1..n -> Words] : n \in 0..max}
Cases == {"lower", "UPPER", "Capital"}

RECURSIVE Concat(_)
Concat(ws) == IF ws = <<>> THEN <<>> ELSE Head(ws) \o Concat(Tail(ws))

InCase(text, case) ==
  IF case = "UPPER" THEN ToUpperCase(text)
  ELSE IF case = "Capital" /\ text # <<>>
       THEN <<ToUpperChar(Head(text))>> \o Tail(text)
       ELSE text

\* the lastDownCause arguments
Causes == {JsNull, JsString(S_signal), JsString(InCase(S_dying_gasp, "Capital")),
           JsString(T_garbage)}

\* the calls of determineOnuStatus: a status string built from words or one
\* of the extended tests, or an absent one, and a lastDownCause
StatusArgs(max) ==
  {[words |-> ws, case |-> c, statusString |-> JsString(InCase(Concat(ws), c)),
    lastDownCause |-> cause] :
     ws \in WordLists(max) \cup {<<w>> : w \in SynonymWords}, c \in Cases, cause \in Causes}
  \cup
  {[words |-> <<>>, case |-> "lower", statusString |-> x, lastDownCause |-> cause] :
     x \in {JsNull, JsUndefined}, cause \in Causes}

\* the service just constructed, about to be given a raw status
InitStatus == InitBase /\ Configured /\ arg \in StatusArgs(MaxWords)

\* onuService.determineOnuStatus(statusString, lastDownCause)
DetermineStatus ==
  /\ ret.op = "init"
  /\ ret' = Ret("determineOnuStatus", 0, "none",
                DetermineOnuStatus(arg.statusString, arg.lastDownCause),
                Undefined, Null, 0)
  /\ UNCHANGED <<now, arg, cache, statusHistory, written, appended>>
  /\ UNCHANGED limiterVars
  /\ UNCHANGED onuVars

\* onuService.determineOnuStatus(statusString), later version
DetermineStatusTrimmed ==
  /\ ret.op = "init"
  /\ arg.lastDownCause = JsNull
  /\ ret' = Ret("determineOnuStatus.trim", 0, "none",
                DetermineOnuStatusTrimmed(arg.statusString), Undefined, Null, 0)
  /\ UNCHANGED <<now, arg, cache, statusHistory, written, appended>>
  /\ UNCHANGED limiterVars
  /\ UNCHANGED onuVars

NextStatus == DetermineStatus \/ DetermineStatusTrimmed

SpecStatus == InitStatus /\ [][NextStatus]_vars

\* ------------------------------------------- OnuService status history

\* the devices trackStatusChange is called for; the second has no name and no ODB
Onus ==
  {[unique_external_id |-> "d1", name |-> "ONU 1", odb_name |-> "ODB1",
    latitude |-> JsString(<<"-", "6", ".", "2">>), longitude |-> JsString(<<"1", "0", "6", ".", "8">>)],
   [unique_external_id |-> "d2", name |-> "", odb_name |-> "",
    latitude |-> JsString(<<>>), longitude |-> JsUndefined]}

\* x || 'Unknown'
OrUnknown(x) == IF x = "" THEN "Unknown" ELSE x

\* the event of trackStatusChange; seq is not a field of the code's event: it
\* numbers the events given to one log, so that equal events can be told apart
StatusEvent(onu, newStatus, oldStatus, t, seq) ==
  [unique_external_id |-> onu.unique_external_id, name |-> OrUnknown(onu.name),
   odb_name |-> OrUnknown(onu.odb_name), old_status |-> oldStatus,
   new_status |-> newStatus, timestamp |-> t, seq |-> seq]

\* unshift(event) that never drops an event
Unshift_NoCap(log, event) == <<event>> \o log

\* log.unshift(event); if (log.length > 50) log.pop()
Unshift(log, event) ==
  LET longer == <<event>> \o log
  IN IF Len(longer) > HistoryCap THEN SubSeq(longer, 1, Len(longer) - 1) ELSE longer

\* a test that takes every call for a change of status
SameStatus_Never(newStatus, oldStatus) == FALSE

\* if (newStatus === oldStatus) return
SameStatus(newStatus, oldStatus) == newStatus = oldStatus

\* trackStatusChange, were it to keep the power failures in the LOS log
LogOf_OneLog(newStatus) ==
  IF newStatus \in {"LOS", "Power Fail"} THEN <<"recentLos">> ELSE <<>>

\* the log trackStatusChange puts a change to newStatus in, if any
LogOf(newStatus) ==
  IF newStatus = "LOS" THEN <<"recentLos">>
  ELSE IF newStatus = "Power Fail" THEN <<"recentPowerFail">> ELSE <<>>

\* trackStatusChange: the number of events each log has been given
TrackedCount(n, newStatus, oldStatus) ==
  IF SameStatus(newStatus, oldStatus) \/ LogOf(newStatus) = <<>> THEN n
  ELSE [n EXCEPT ![LogOf(newStatus)[1]] = @ + 1]

\* trackStatusChange(onu, newStatus, oldStatus): the logs after it
TrackedHistory(h, n, onu, newStatus, oldStatus, t) ==
  IF SameStatus(newStatus, oldStatus) \/ LogOf(newStatus) = <<>> THEN h
  ELSE LET log == LogOf(newStatus)[1]
       IN [h EXCEPT ![log] =
             Unshift(@, StatusEvent(onu, newStatus, oldStatus, t, n[log] + 1))]

\* array.slice(0, end)
Slice(a, end) == SubSeq(a, 1, IF Len(a) < end THEN Len(a) ELSE end)

\* getStatusHistory handing out the log arrays themselves
GetStatusHistoryResult_Alias(h) ==
  [recent_los |-> h.recentLos, recent_power_fail |-> h.recentPowerFail,
   copies |-> FALSE]

\* getStatusHistory(): copies of the first 20 events of each log
GetStatusHistoryResult(h) ==
  [recent_los |-> Slice(h.recentLos, RecentCount),
   recent_power_fail |-> Slice(h.recentPowerFail, RecentCount),
   copies |-> TRUE]

\* onuService.trackStatusChange(onu, newStatus, oldStatus), called directly
TrackStatusChange(onu, newStatus, oldStatus) ==
  /\ statusHistory' = TrackedHistory(statusHistory, appended, onu, newStatus, oldStatus, now)
  /\ appended' = TrackedCount(appended, newStatus, oldStatus)
  /\ arg' = [onu |-> onu, newStatus |-> newStatus, oldStatus |-> oldStatus]
  /\ ret' = Ret("trackStatusChange", 0, "none", "returned", Undefined, Null, 0)
  /\ UNCHANGED <<now, cache, written>>
  /\ UNCHANGED limiterVars
  /\ UNCHANGED onuVars

\* onuService.getStatusHistory()
GetStatusHistory ==
  /\ arg' = <<>>
  /\ ret' = Ret("getStatusHistory", 0, "none", "returned", Undefined,
                <<GetStatusHistoryResult(statusHistory)>>, 0)
  /\ UNCHANGED <<now, cache, statusHistory, written, appended>>
  /\ UNCHANGED limiterVars
  /\ UNCHANGED onuVars

\* the caller of getStatusHistory empties the two arrays it was returned; arrays
\* that are the logs themselves are emptied with them
ClearReturned ==
  /\ ret.op = "getStatusHistory"
  /\ ret' = Ret("clearReturned", 0, "none", "returned", Undefined,
                <<[ret.value[1] EXCEPT !.recent_los = <<>>, !.recent_power_fail = <<>>]>>, 0)
  /\ statusHistory' = IF ret.value[1].copies THEN statusHistory
                      ELSE [recentLos |-> <<>>, recentPowerFail |-> <<>>]
  /\ UNCHANGED <<now, cache, arg, written, appended>>
  /\ UNCHANGED limiterVars
  /\ UNCHANGED onuVars

\* trackStatusChange called with any device and any two statuses
NextTrack ==
  \E onu \in Onus, newStatus \in Statuses, oldStatus \in Statuses :
    /\ appended.recentLos + appended.recentPowerFail < MaxTrack
    /\ TrackStatusChange(onu, newStatus, oldStatus)

SpecTrack == Init /\ [][NextTrack]_vars

\* one device going from Online to LOS or to Power Fail over and over, as in the
\* unit test of the history limit, and readers of the history
NextHistory ==
  \/ \E newStatus \in {"LOS", "Power Fail"} :
       /\ appended[LogOf(newStatus)[1]] < HistoryCap + MaxEvicted
       /\ TrackStatusChange(CHOOSE onu \in Onus : onu.name # "", newStatus, "Online")
  \/ GetStatusHistory
  \/ ClearReturned

SpecHistory == Init /\ [][NextHistory]_vars

\* ------------------------------------------------- OnuService requests

\* the messages of the errors makeRequest and the service throw, and those the
\* upstream sends
M_empty_response ==
  <<"E", "m", "p", "t", "y", " ", "r", "e", "s", "p", "o", "n", "s", "e", " ", "f", "r",
    "o", "m", " ", "A", "P", "I">>
M_error_status ==
  <<"A", "P", "I", " ", "r", "e", "t", "u", "r", "n", "e", "d", " ", "e", "r", "r", "o",
    "r", " ", "s", "t", "a", "t", "u", "s">>
M_invalid_api_key ==
  <<"i", "n", "v", "a", "l", "i", "d", " ", "a", "p", "i", " ", "k", "e", "y">>
M_check_api_key ==
  <<"I", "n", "v", "a", "l", "i", "d", " ", "A", "P", "I", " ", "K", "e", "y", ".", " ",
    "P", "l", "e", "a", "s", "e", " ", "c", "h", "e", "c", "k", " ", "y", "o", "u", "r",
    " ", "A", "P", "I", "_", "K", "E", "Y", " ", "c", "o", "n", "f", "i", "g", "u", "r",
    "a", "t", "i", "o", "n", " ", "i", "n", " ", ".", "e", "n", "v", " ", "f", "i", "l",
    "e">>
M_invalid_details ==
  <<"I", "n", "v", "a", "l", "i", "d", " ", "r", "e", "s", "p", "o", "n", "s", "e", " ",
    "f", "r", "o", "m", " ", "g", "e", "t", "_", "a", "l", "l", "_", "o", "n", "u", "s",
    "_", "d", "e", "t", "a", "i", "l", "s">>
M_invalid_gps ==
  <<"I", "n", "v", "a", "l", "i", "d", " ", "r", "e", "s", "p", "o", "n", "s", "e", " ",
    "f", "r", "o", "m", " ", "g", "e", "t", "_", "a", "l", "l", "_", "o", "n", "u", "s",
    "_", "g", "p", "s", "_", "c", "o", "o", "r", "d", "i", "n", "a", "t", "e", "s">>
M_failed_details ==
  <<"F", "a", "i", "l", "e", "d", " ", "t", "o", " ", "g", "e", "t", " ", "O", "N", "U",
    " ", "d", "e", "t", "a", "i", "l", "s">>
E_test ==
  <<"T", "e", "s", "t", " ", "e", "r", "r", "o", "r">>
E_key ==
  <<"I", "n", "v", "a", "l", "i", "d", " ", "A", "P", "I", " ", "k", "e", "y", " ", "p", "r", "o", "v", "i", "d", "e", "d">>
E_network ==
  <<"N", "e", "t", "w", "o", "r", "k", " ", "E", "r", "r", "o", "r">>

\* the message of the error makeRequest throws: for an empty body, for an
\* envelope with status === false and its error text (lines 106-122), or the
\* cause client.get rejected with, rethrown (line 144)
ThrownMessage(outcome, error) ==
  IF outcome = "empty" THEN M_empty_response
  ELSE IF outcome = "statusFalse"
       THEN (IF Includes(ToLowerCase(IF error = <<>> THEN M_error_status ELSE error),
                         M_invalid_api_key)
             THEN M_check_api_key
             ELSE IF error = <<>> THEN M_error_status ELSE error)
       ELSE error

\* what the upstream sends with an outcome: the error text of a failure
\* envelope, absent in one, or the message of the cause of a transport failure
ErrorsFor(outcome) ==
  IF outcome = "statusFalse" THEN {<<>>, E_test, E_key}
  ELSE IF outcome = "transport" THEN {E_network} ELSE {<<>>}

OnuOps == {"getAllOnusWithDetails", "getOnusWithGps", "getOnuById"}

\* getOnusWithGps of the later version of the service, which asks the details
\* endpoint once and filters what it answers
LaterGps == "getOnusWithGps (later)"

\* the filter objects of the requests: option/value pairs in insertion order
FilterObjects ==
  {<<<<"olt_id", "1">>, <<"zone", "2">>>>, <<<<"zone", "2">>, <<"olt_id", "1">>>>}

\* the arguments of an operation: a filter object, or an external id
Args(op) == IF op = "getOnuById" THEN {<<"d1">>} ELSE FilterObjects

\* JSON.stringify(filters): the members, in insertion order
RECURSIVE Members(_)
Members(f) ==
  IF f = <<>> THEN <<>>
  ELSE <<f[1][1], ":", f[1][2]>> \o (IF Len(f) > 1 THEN <<",">> ELSE <<>>)
       \o Members(Tail(f))

\* JSON.stringify(filters)
Stringify(f) == <<"{">> \o Members(f) \o <<"}">>

\* the cacheKey of an operation
CacheKey(op, x) ==
  IF op = "getAllOnusWithDetails" THEN <<"all_onus_">> \o Stringify(x)
  ELSE IF op \in {"getOnusWithGps", LaterGps} THEN <<"onus_gps_">> \o Stringify(x)
  ELSE <<"onu_detail_">> \o x

\* `status_${onu.unique_external_id}`
StatusKey(id) == <<"status_", id>>

\* what the upstream answers: the devices of a list response, and the raw
\* status of each device
OnuOf(id) == CHOOSE onu \in Onus : onu.unique_external_id = id
OnuLists == {<<>>, <<OnuOf("d1"), OnuOf("d2")>>}
RawStatuses ==
  {JsString(InCase(S_online, "Capital")), JsString(ToUpperCase(S_los)),
   JsString(InCase(S_power_fail, "Capital"))}
RawMaps == {[id \in {"d1", "d2"} |-> IF id = "d1" THEN raw ELSE JsString(InCase(S_online, "Capital"))] :
              raw \in RawStatuses}
\* what becomes of an upstream request of the service: a body as expected,
\* a body without status or list, an empty body, a failure envelope, or
\* no response; SpecOnu answers or drops a request, SpecById and SpecFetch
\* go through the other outcomes
FetchOutcomes == {"ok", "noList", "empty", "statusFalse", "transport"}
OnuOutcomes == {"ok", "transport"}

\* makeRequest, were it to hand an empty body or a failure envelope to its caller
Rejected_OnlyTransport(outcome) == outcome = "transport"

\* makeRequest threw
Rejected(outcome) == outcome \in {"empty", "statusFalse", "transport"}

\* statusMap[id]
RawOf(statusMap, id) == IF id \in DOMAIN statusMap THEN statusMap[id] ELSE JsUndefined

\* the endpoint class of the request an operation awaits at a stage
TypeAt(op, stage) ==
  IF op = "getAllOnusWithDetails" THEN (IF stage = 1 THEN "details" ELSE "normal")
  ELSE IF op = LaterGps THEN "details"
  ELSE IF op = "getOnusWithGps"
       THEN (IF stage = 1 THEN "gps" ELSE IF stage = 2 THEN "details" ELSE "normal")
       ELSE "normal"

\* the last stage of an operation
Stages(op) ==
  IF op = "getAllOnusWithDetails" THEN 2 ELSE IF op = LaterGps THEN 1 ELSE 3

\* a cache test that never finds an entry
Hit_Never(cached) == FALSE

\* if (cached)
Hit(cached) == cached # Null

\* caller slots that serve neither a request nor an OnuService call
FreeSlots == {p \in Procs : pc[p] = "idle" /\ call[p].op = "none"}

\* the n-th lowest free slot
Slot(n) == CHOOSE p \in FreeSlots : Cardinality({q \in FreeSlots : q < p}) = n - 1

\* the part of the state the synchronous code of an OnuService call can change
Svc ==
  [lim |-> Cur, cache |-> cache, written |-> written, history |-> statusHistory,
   appended |-> appended, call |-> call]

InstallSvc(s) ==
  /\ Install(s.lim)
  /\ cache' = s.cache
  /\ written' = s.written
  /\ statusHistory' = s.history
  /\ appended' = s.appended
  /\ call' = s.call

\* this.cache.set(key, value, ttl)
SvcSet(s, key, value, ttl) ==
  [s EXCEPT !.cache = CacheSetStore(@, key, value, ttl, now, FALSE),
            !.written = WrittenSet(@, key, value, ttl, now, FALSE)]

\* the status bookkeeping without the cache.set of the status
TrackAndCache_NoSet(s, onu, status) ==
  LET oldStatusKey == StatusKey(onu.unique_external_id)
      oldStatus == CacheGetResult(s.cache, oldStatusKey, now, FALSE).value
      s1 == [s EXCEPT !.cache = StoreAfterGet(@, oldStatusKey, now)]
  IN IF oldStatus # Null /\ oldStatus[1].val # status
     THEN [s1 EXCEPT
             !.history = TrackedHistory(@, s.appended, onu, status, oldStatus[1].val, now),
             !.appended = TrackedCount(@, status, oldStatus[1].val)]
     ELSE s1

\* the status bookkeeping comparing with the status last stored, expired or not
TrackAndCache_Stale(s, onu, status) ==
  LET oldStatusKey == StatusKey(onu.unique_external_id)
      oldStatus == IF oldStatusKey \in DOMAIN s.written
                   THEN <<s.written[oldStatusKey].value>> ELSE Null
      s1 == [s EXCEPT !.cache = StoreAfterGet(@, oldStatusKey, now)]
      s2 == IF oldStatus # Null /\ oldStatus[1].val # status
            THEN [s1 EXCEPT
                    !.history = TrackedHistory(@, s.appended, onu, status, oldStatus[1].val, now),
                    !.appended = TrackedCount(@, status, oldStatus[1].val)]
            ELSE s1
  IN SvcSet(s2, oldStatusKey, Str(status), ttlOnuStatus)

\* the status bookkeeping for one device: compare with the cached status,
\* track a change, cache the status
TrackAndCache(s, onu, status) ==
  LET oldStatusKey == StatusKey(onu.unique_external_id)
      oldStatus == CacheGetResult(s.cache, oldStatusKey, now, FALSE).value
      s1 == [s EXCEPT !.cache = StoreAfterGet(@, oldStatusKey, now)]
      s2 == IF oldStatus # Null /\ oldStatus[1].val # status
            THEN [s1 EXCEPT
                    !.history = TrackedHistory(@, s.appended, onu, status, oldStatus[1].val, now),
                    !.appended = TrackedCount(@, status, oldStatus[1].val)]
            ELSE s1
  IN SvcSet(s2, oldStatusKey, Str(status), ttlOnuStatus)

\* getAllOnusWithDetails lines 132-154, for one device: classify, then the
\* status bookkeeping
ProcessOnu(s, onu, statusMap) ==
  TrackAndCache(s, onu, DetermineOnuStatus(RawOf(statusMap, onu.unique_external_id), JsNull))

RECURSIVE ProcessOnus(_, _, _)
ProcessOnus(s, onus, statusMap) ==
  IF onus = <<>> THEN s
  ELSE ProcessOnus(ProcessOnu(s, Head(onus), statusMap), Tail(onus), statusMap)

\* the entry of the result of getAllOnusWithDetails for one device
AllItem(onu, statusMap) ==
  LET rawStatus == RawOf(statusMap, onu.unique_external_id)
      status == DetermineOnuStatus(rawStatus, JsNull)
  IN [unique_external_id |-> onu.unique_external_id, name |-> onu.name,
      odb_name |-> onu.odb_name, latitude |-> onu.latitude, longitude |-> onu.longitude,
      status |-> status, status_color |-> GetStatusColor(status), raw_status |-> rawStatus]

\* the entry of the result of getOnusWithGps for one device of the GPS list
GpsItem(gpsOnu, detailsList, statusMap) ==
  LET id == gpsOnu.unique_external_id
      rawStatus == RawOf(statusMap, id)
      status == DetermineOnuStatus(rawStatus, JsNull)
      known == \E i \in DOMAIN detailsList : detailsList[i].unique_external_id = id
      details == detailsList[CHOOSE i \in DOMAIN detailsList :
                               detailsList[i].unique_external_id = id]
  IN [unique_external_id |-> id,
      latitude |-> ParseFloat(gpsOnu.latitude), longitude |-> ParseFloat(gpsOnu.longitude),
      status |-> status, status_color |-> GetStatusColor(status), raw_status |-> rawStatus,
      name |-> IF known THEN details.name ELSE "",
      odb_name |-> IF known THEN details.odb_name ELSE ""]

\* the entry getOnuById builds: rawStatus is null and signal is null when
\* their responses carry no status
ByIdItem(id, rawStatus, hasSignal) ==
  LET status == DetermineOnuStatus(rawStatus, JsNull)
  IN [unique_external_id |-> id, name |-> OnuOf(id).name, odb_name |-> OnuOf(id).odb_name,
      status |-> status, status_color |-> GetStatusColor(status), raw_status |-> rawStatus,
      signal |-> IF hasSignal THEN <<"onu_signal">> ELSE Null]

\* an operation starts the requests it awaits first: one, or for getOnuById
\* the three of Promise.all, each in a slot of its own
Started(s, op, x) ==
  IF op = "getOnuById"
  THEN LET lim == BeginRequest(BeginRequest(BeginRequest(s.lim, Slot(1), "normal"),
                                            Slot(2), "normal"), Slot(3), "normal")
           c(n) == [NoCall EXCEPT !.op = op, !.x = x, !.stage = n, !.lead = Slot(1),
                                  !.left = IF n = 1 THEN 3 ELSE 0,
                                  !.acc2 = IF n = 1 THEN <<FALSE, FALSE, FALSE>> ELSE <<>>]
       IN [s EXCEPT !.lim = lim,
                    !.call = [p \in Procs |->
                                IF p = Slot(1) THEN c(1) ELSE IF p = Slot(2) THEN c(2)
                                ELSE IF p = Slot(3) THEN c(3) ELSE s.call[p]]]
  ELSE LET p == Slot(1)
           lim == BeginRequest(s.lim, p, TypeAt(op, 1))
       IN IF lim.pc[p] = "idle" THEN [s EXCEPT !.lim = lim]
          ELSE [s EXCEPT !.lim = lim,
                         !.call[p] = [NoCall EXCEPT !.op = op, !.x = x, !.stage = 1, !.lead = p]]

\* the slots of an operation need
Need(op) == IF op = "getOnuById" THEN 3 ELSE 1

\* getAllOnusWithDetails(filters), getOnusWithGps(filters), getOnuById(id) up
\* to the first suspension: the cached entry, or the first upstream requests
OnuCall(op, x) ==
  LET key == CacheKey(op, x)
      cached == CacheGetResult(cache, key, now, FALSE).value
      s0 == [Svc EXCEPT !.cache = StoreAfterGet(@, key, now)]
  IN /\ arg' = [step |-> "call", op |-> op, x |-> x, key |-> key,
                stage |-> 0, outcome |-> "none", error |-> <<>>]
     /\ IF Hit(cached)
        THEN /\ InstallSvc(s0)
             /\ ret' = Ret(op, 0, "none", "cached", Undefined, cached, 0)
             /\ UNCHANGED misses
        ELSE /\ misses < MaxMisses
             /\ Cardinality(FreeSlots) >= Need(op)
             /\ InstallSvc(Started(s0, op, x))
             /\ misses' = misses + 1
             /\ ret' = Ret(op, Slot(1), "none",
                           IF Started(s0, op, x).call[Slot(1)].op = "none"
                           THEN "threw" ELSE "awaiting", Undefined, Null, 0)
     /\ UNCHANGED now

\* getAllOnusWithDetails, were it to go on without statuses when the status
\* request throws
Continued_StatusCaught(s, p, outcome, list, raw) ==
  LET c == s.call[p]
      done == [s EXCEPT !.call[p] = NoCall]
      body == ~Rejected(outcome)
      next == BeginRequest(s.lim, p, TypeAt(c.op, c.stage + 1))
      goOn(acc, acc2) ==
        IF next.pc[p] = "idle" THEN [done EXCEPT !.lim = next]
        ELSE [s EXCEPT !.lim = next,
                       !.call[p] = [c EXCEPT !.stage = @ + 1, !.acc = acc, !.acc2 = acc2]]
      statusMap == IF outcome = "ok" THEN raw ELSE <<>>
      key == CacheKey(c.op, c.x)
  IN IF ~body /\ ~(c.op = "getAllOnusWithDetails" /\ c.stage = 2) THEN done
     ELSE IF c.op = "getAllOnusWithDetails"
          THEN IF c.stage = 1
               THEN (IF outcome = "ok" THEN goOn(list, <<>>) ELSE done)
               ELSE SvcSet(ProcessOnus(done, c.acc, statusMap), key,
                           Obj([i \in DOMAIN c.acc |-> AllItem(c.acc[i], statusMap)]),
                           ttlOnuDetails)
          ELSE IF c.stage = 1
               THEN (IF outcome = "ok" THEN goOn(list, <<>>) ELSE done)
               ELSE IF c.stage = 2
                    THEN goOn(c.acc, IF outcome = "ok" THEN list ELSE <<>>)
                    ELSE SvcSet(done, key,
                                Obj([i \in DOMAIN c.acc |-> GpsItem(c.acc[i], c.acc2, statusMap)]),
                                ttlGps)

\* a sequential operation goes on after the response it awaited at a stage
Continued(s, p, outcome, list, raw) ==
  LET c == s.call[p]
      done == [s EXCEPT !.call[p] = NoCall]
      body == ~Rejected(outcome)
      next == BeginRequest(s.lim, p, TypeAt(c.op, c.stage + 1))
      goOn(acc, acc2) ==
        IF next.pc[p] = "idle" THEN [done EXCEPT !.lim = next]
        ELSE [s EXCEPT !.lim = next,
                       !.call[p] = [c EXCEPT !.stage = @ + 1, !.acc = acc, !.acc2 = acc2]]
      statusMap == IF outcome = "ok" THEN raw ELSE <<>>
      key == CacheKey(c.op, c.x)
  IN IF ~body THEN done
     ELSE IF c.op = "getAllOnusWithDetails"
          THEN IF c.stage = 1
               THEN (IF outcome = "ok" THEN goOn(list, <<>>) ELSE done)
               ELSE SvcSet(ProcessOnus(done, c.acc, statusMap), key,
                           Obj([i \in DOMAIN c.acc |-> AllItem(c.acc[i], statusMap)]),
                           ttlOnuDetails)
          ELSE IF c.stage = 1
               THEN (IF outcome = "ok" THEN goOn(list, <<>>) ELSE done)
               ELSE IF c.stage = 2
                    THEN goOn(c.acc, IF outcome = "ok" THEN list ELSE <<>>)
                    ELSE SvcSet(done, key,
                                Obj([i \in DOMAIN c.acc |-> GpsItem(c.acc[i], c.acc2, statusMap)]),
                                ttlGps)

\* getOnuById, were it to cache the record although the details carry no status
Joined_AnyDetails(s, p, outcome, raw) ==
  LET c == s.call[p]
      l == c.lead
      lc == [s.call[l] EXCEPT !.left = @ - 1, !.failed = @ \/ Rejected(outcome),
                              !.acc = IF outcome = "ok" /\ c.stage = 2 THEN <<raw["d1"]>> ELSE @,
                              !.acc2 = [@ EXCEPT ![c.stage] = outcome = "ok"]]
      s1 == [s EXCEPT !.call = [q \in Procs |->
                                  IF q = l THEN (IF lc.left = 0 THEN NoCall ELSE lc)
                                  ELSE IF q = p THEN NoCall ELSE s.call[q]]]
  IN IF lc.left = 0 /\ ~lc.failed
     THEN SvcSet(s1, CacheKey(c.op, c.x),
                 Obj(ByIdItem(c.x[1], IF lc.acc = <<>> THEN JsNull ELSE lc.acc[1], lc.acc2[3])),
                 ttlOnuStatus)
     ELSE s1

\* getOnuById goes on after one of its three responses: Promise.all rejects
\* with the first request that throws, and resolves with the last response;
\* then the lookup throws unless the details carry a status
Joined(s, p, outcome, raw) ==
  LET c == s.call[p]
      l == c.lead
      lc == [s.call[l] EXCEPT !.left = @ - 1, !.failed = @ \/ Rejected(outcome),
                              !.acc = IF outcome = "ok" /\ c.stage = 2 THEN <<raw["d1"]>> ELSE @,
                              !.acc2 = [@ EXCEPT ![c.stage] = outcome = "ok"]]
      s1 == [s EXCEPT !.call = [q \in Procs |->
                                  IF q = l THEN (IF lc.left = 0 THEN NoCall ELSE lc)
                                  ELSE IF q = p THEN NoCall ELSE s.call[q]]]
  IN IF lc.left = 0 /\ ~lc.failed /\ lc.acc2[1]
     THEN SvcSet(s1, CacheKey(c.op, c.x),
                 Obj(ByIdItem(c.x[1], IF lc.acc = <<>> THEN JsNull ELSE lc.acc[1], lc.acc2[3])),
                 ttlOnuStatus)
     ELSE s1

\* how the step of an operation on a response ends: it threw, it awaits the
\* next response, or it returned; a response after the throw is ignored
RespondOut(s, p, outcome, after) ==
  LET c == s.call[p]
      l == c.lead
  IN IF c.op = "getOnuById"
     THEN IF s.call[l].failed THEN "ignored"
          ELSE IF Rejected(outcome) THEN "threw"
          ELSE IF s.call[l].left > 1 THEN "awaiting"
          ELSE IF (IF c.stage = 1 THEN outcome = "ok" ELSE s.call[l].acc2[1])
               THEN "returned" ELSE "threw"
     ELSE IF after.call[p].op # "none" THEN "awaiting"
          ELSE IF CacheKey(c.op, c.x) \in DOMAIN after.written
                  /\ after.written[CacheKey(c.op, c.x)].at = now
                  /\ outcome \in {"ok", "noList"} /\ c.stage = Stages(c.op)
               THEN "returned" ELSE "threw"

\* the message of the error an operation throws on a response
ThrownBy(c, outcome, error) ==
  IF Rejected(outcome) THEN ThrownMessage(outcome, error)
  ELSE IF c.op = "getOnuById" THEN M_failed_details
  ELSE IF c.op = "getOnusWithGps" /\ c.stage = 1 THEN M_invalid_gps
  ELSE M_invalid_details

\* client.get settles for caller p on behalf of an OnuService call: makeRequest
\* returns or throws, and the operation goes on in the same turn
OnuRespond(p, outcome, error, list, raw) ==
  LET c == call[p]
      s1 == [Svc EXCEPT !.lim = AfterResponse(@, p, outcome)]
      after == IF c.op = "getOnuById" THEN Joined(s1, p, outcome, raw)
               ELSE Continued(s1, p, outcome, list, raw)
      out == RespondOut(s1, p, outcome, after)
  IN /\ pc[p] = "http"
     /\ c.op # "none"
     /\ InstallSvc(after)
     /\ arg' = [step |-> "response", op |-> c.op, x |-> c.x, key |-> CacheKey(c.op, c.x),
                stage |-> c.stage, outcome |-> outcome, error |-> error]
     /\ ret' = Ret(c.op, p, "none", out, Undefined,
                   IF out = "returned" THEN <<after.cache[CacheKey(c.op, c.x)].v>>
                   ELSE IF out = "threw" THEN <<Err(ThrownBy(c, outcome, error))>>
                   ELSE Null, 0)
     /\ UNCHANGED <<now, misses>>

\* the payloads that make a difference to the response a caller awaits
ListsFor(c, outcome) ==
  IF outcome = "ok" /\ c.op # "getOnuById" /\ c.stage < Stages(c.op) THEN OnuLists
  ELSE {<<>>}

NoRaws == {[id \in {"d1", "d2"} |-> JsString(InCase(S_online, "Capital"))]}

RawsFor(c, outcome) ==
  IF outcome = "ok" /\ (IF c.op = "getOnuById" THEN c.stage = 2 ELSE c.stage = Stages(c.op))
  THEN RawMaps ELSE NoRaws

\* the OnuService serving requests over the cache, the limiter and the upstream
NextOnu ==
  \/ Advance
  \/ \E op \in OnuOps : \E x \in Args(op) : OnuCall(op, x)
  \/ \E p \in Procs : Wake(p)
  \/ \E p \in {q \in Procs : pc[q] = "http"}, outcome \in OnuOutcomes :
       \E list \in ListsFor(call[p], outcome), raw \in RawsFor(call[p], outcome) :
         OnuRespond(p, outcome, IF outcome = "transport" THEN E_network ELSE <<>>, list, raw)

SpecOnu == Init /\ [][NextOnu]_vars

\* getOnuById(id) over the cache, the limiter and an upstream that may fail
\* each of its three requests
ByIdOutcomes == {"ok", "noList", "statusFalse", "transport"}

GetOnuById == OnuCall("getOnuById", <<"d1">>)

ByIdRespond ==
  \E p \in {q \in Procs : pc[q] = "http"}, outcome \in ByIdOutcomes :
    OnuRespond(p, outcome, IF outcome = "transport" THEN E_network ELSE E_test, <<>>,
               CHOOSE raw \in RawMaps : raw["d1"] = JsString(ToUpperCase(S_los)))

NextById ==
  \/ Advance
  \/ GetOnuById
  \/ \E p \in Procs : Wake(p)
  \/ ByIdRespond

SpecById == Init /\ [][NextById]_vars

\* the two list operations, unfiltered, over an upstream that may fail each
\* request in every way
FetchList == \E op \in OnuOps \ {"getOnuById"} : OnuCall(op, <<>>)

FetchRespond ==
  \E p \in {q \in Procs : pc[q] = "http"}, outcome \in FetchOutcomes :
    \E error \in ErrorsFor(outcome), list \in ListsFor(call[p], outcome), raw \in NoRaws :
      OnuRespond(p, outcome, error, list, raw)

NextFetch ==
  \/ Advance
  \/ FetchList
  \/ \E p \in Procs : Wake(p)
  \/ FetchRespond

SpecFetch == Init /\ [][NextFetch]_vars

\* -------------------------------------------------------------- claims

\* the positions of the timestamps of a list that are less than 60 minutes old at t
InWindowIdx(list, t) == {i \in DOMAIN list : t - list[i] < Hour}

\* the timestamps of a list that are less than 60 minutes old at t, in order
InWindow(list, t) == SelectSeq(list, LAMBDA ts : t - ts < Hour)

\* the ways the synchronous part of makeRequest can end
BeginOuts == {"rateLimited", "sleeping", "issued"}

\* C1: for each restricted class, the upstream requests of that class issued
\* within any 60-minute window never number more than the class limit (requests
\* that failed in transport, which the quota is not meant to count, left aside).
C1_QuotaNeverExceeded ==
  \A c \in Restricted : \A i \in DOMAIN issued :
    Cardinality({j \in DOMAIN issued :
                   /\ issued[j].type = c
                   /\ issued[j].state # "transport"
                   /\ issued[j].t >= issued[i].t
                   /\ issued[j].t - issued[i].t < Hour}) <= Limit(c)

\* C2: any two upstream requests, of whatever class, are issued at least
\* apiDelay apart.
C2_RequestsSpaced ==
  \A i, j \in DOMAIN issued : i < j => issued[j].t - issued[i].t >= apiDelay

\* C3: when one caller calls waitForNextCall twice in sequence, the second call
\* returns at least apiDelay after the first one set lastCallTime.
C3_SecondWaitSpaced ==
  \A p \in Procs : Len(waitLog[p]) = 2 => waitLog[p][2] - waitLog[p][1] >= apiDelay

\* C3 witness: a caller's second waitForNextCall has just returned, after a sleep
\* that ended exactly apiDelay after its first
C3_Witness ==
  \E p \in Procs :
    /\ ret.op = "waitForNextCall" /\ ret.out = "returned" /\ ret.proc = p
    /\ Len(waitLog[p]) = 2
    /\ waitLog[p][2] = now
    /\ waitLog[p][2] - waitLog[p][1] = apiDelay

\* C4: when every recorded timestamp of a restricted class is less than 60
\* minutes old, canCallEndpoint allows the call if fewer than N are recorded
\* and denies it, with a defined waitMinutes, if N or more are recorded.
C4_CheckMatchesCount ==
  [][\A c \in Restricted :
       (/\ ret'.op = "canCallEndpoint" /\ ret'.type = c
        /\ InWindowIdx(callCounts[c], now) = DOMAIN callCounts[c])
       => /\ Len(callCounts[c]) < Limit(c) => ret'.out = "allowed"
          /\ Len(callCounts[c]) >= Limit(c) =>
                /\ ret'.out = "denied"
                /\ Len(ret'.waitMinutes) = 1]_vars

\* C4 witness: canCallEndpoint has just denied a class whose list holds N
\* timestamps, all inside the window
C4_Witness ==
  /\ ret.op = "canCallEndpoint" /\ ret.type \in Restricted /\ ret.out = "denied"
  /\ ret.removed = 0
  /\ Len(callCounts[ret.type]) = Limit(ret.type)
  /\ Len(ret.waitMinutes) = 1

\* C5: a recorded call counts against the quota only while it is less than 60
\* minutes old: canCallEndpoint allows the call exactly when fewer than N
\* recorded timestamps are that young, and it leaves exactly those in the list.
C5_AgedOutCallsLeaveQuota ==
  [][\A c \in Restricted :
       (ret'.op = "canCallEndpoint" /\ ret'.type = c)
       => /\ (ret'.out = "allowed") <=>
                (Cardinality(InWindowIdx(callCounts[c], now)) < Limit(c))
          /\ callCounts'[c] = InWindow(callCounts[c], now)]_vars

\* C5 witness: canCallEndpoint has just allowed a class after removing N or
\* more aged-out timestamps from its list
C5_Witness ==
  /\ ret.op = "canCallEndpoint" /\ ret.type \in Restricted /\ ret.out = "allowed"
  /\ ret.removed >= Limit(ret.type)

\* C6: getRemainingCalls returns the limit minus the number of recorded calls
\* less than 60 minutes old; a recordCall raises that number by exactly one
\* for its own class and leaves the other class's number alone.
C6_RemainingIsLimitMinusCount ==
  [][\A c \in Restricted :
       /\ (ret'.op = "getRemainingCalls" /\ ret'.type = c)
          => ret'.value = <<Limit(c) - Cardinality(InWindowIdx(callCounts[c], now))>>
       /\ (ret'.op = "recordCall" /\ ret'.type \in Restricted)
          => Cardinality(InWindowIdx(callCounts'[c], now))
               = Cardinality(InWindowIdx(callCounts[c], now))
                   + (IF ret'.type = c THEN 1 ELSE 0)]_vars

\* C6 witness: getRemainingCalls has just returned limit - 1 for a class with
\* one young and at least one aged-out timestamp, while the other class has calls
C6_Witness ==
  /\ ret.op = "getRemainingCalls" /\ ret.type \in Restricted
  /\ ret.value = <<Limit(ret.type) - 1>>
  /\ ret.removed > 0
  /\ \E d \in Restricted \ {ret.type} : callCounts[d] # <<>>

\* C7: getRemainingCalls never returns a negative number for a restricted class.
C7_RemainingNeverNegative ==
  (ret.op = "getRemainingCalls" /\ ret.type \in Restricted) => ret.value[1] >= 0

\* C8: a restricted makeRequest that ends in failure (transport error, empty
\* body, status === false) leaves the recorded-call lists unchanged.
C8_FailedCallNotRecorded ==
  [][(ret'.op = "makeRequest" /\ ret'.out \in {"transport", "empty", "statusFalse"})
       => callCounts' = callCounts]_vars

\* C9: with N or more calls of a restricted class inside the window,
\* makeRequest of that class throws 'Rate limit exceeded' with the wait minutes,
\* issues no request, suspends no caller, and leaves lastCallTime and the
\* recorded-call lists unchanged.
C9_RejectionChangesNothing ==
  [][\A c \in Restricted :
       (/\ ret'.op = "makeRequest" /\ ret'.type = c /\ ret'.out \in BeginOuts
        /\ Cardinality(InWindowIdx(callCounts[c], now)) >= Limit(c))
       => /\ ret'.out = "rateLimited"
          /\ Len(ret'.waitMinutes) = 1
          /\ issued' = issued
          /\ pc' = pc
          /\ lastCallTime' = lastCallTime
          /\ callCounts' = callCounts]_vars

\* C10: a class other than 'gps' and 'details' is outside the quota:
\* canCallEndpoint allows it whatever is recorded, getRemainingCalls returns
\* null, and recordCall changes neither the lists nor lastCallTime.
C10_OtherClassesUnmetered ==
  [][\A c \in EndpointTypes \ Restricted :
       ret'.type = c
       => /\ ret'.op = "canCallEndpoint" => ret'.out = "allowed"
          /\ ret'.op = "getRemainingCalls" => ret'.value = Null
          /\ ret'.op \in {"recordCall", "canCallEndpoint", "getRemainingCalls"}
               => /\ callCounts' = callCounts
                  /\ DOMAIN callCounts' = Restricted
                  /\ lastCallTime' = lastCallTime]_vars

\* C10 witness: recordCall('normal') has just returned while both restricted
\* classes are at their limit, and the lists are those of the two classes only
C10_Witness ==
  /\ ret.op = "recordCall" /\ ret.type = "normal"
  /\ DOMAIN callCounts = Restricted
  /\ \A c \in Restricted : Cardinality(InWindowIdx(callCounts[c], now)) >= Limit(c)

\* the calls of the CacheService
CacheOps == {"cache.get", "cache.set", "cache.del", "cache.flush"}

\* the latest set of key k had a positive ttl that has not elapsed at time t
Fresh(k, t) ==
  /\ k \in DOMAIN written
  /\ written[k].ttl > 0
  /\ t < written[k].at + written[k].ttl

\* the latest set of key k had a positive ttl that has elapsed at time t
Stale(k, t) ==
  /\ k \in DOMAIN written
  /\ written[k].ttl > 0
  /\ t > written[k].at + written[k].ttl

\* C11: a get of key k issued after set(k, v, ttl) with ttl > 0 and before the
\* ttl has elapsed returns v, the value of the most recent set of k, whatever
\* was done to other keys
C11_GetReturnsLatestSet ==
  (ret.op = "cache.get" /\ ~arg.fault /\ Fresh(arg.key, now))
    => ret.value = <<written[arg.key].value>>

\* C12: once the ttl of the latest set of key k has elapsed, a get of k returns
\* null, as it does for a key that was never set, whatever was done to other
\* keys; a newer set of k restarts the expiry
C12_ExpiredReadsAsNeverSet ==
  (ret.op = "cache.get" /\ (arg.key \notin DOMAIN written \/ Stale(arg.key, now)))
    => ret.value = Null

\* a get of an expired key returned null while another key was still served
C12_Witness ==
  /\ ret.op = "cache.get"
  /\ ~arg.fault
  /\ Stale(arg.key, now)
  /\ ret.value = Null
  /\ \E k \in DOMAIN cache : k # arg.key /\ Fresh(k, now) /\ StoreLive(cache, k, now)

\* C13: no call of the CacheService raises: on a fault of the store get returns
\* null, and set, del and flush return false
C13_CacheNeverRaises ==
  ret.op \in CacheOps =>
    /\ ret.out = "returned"
    /\ arg.fault => ret.value = (IF ret.op = "cache.get" THEN Null ELSE <<FALSE>>)

\* the store failed under a get of a key it holds a live entry for
C13_Witness ==
  /\ ret.op = "cache.get"
  /\ arg.fault
  /\ Fresh(arg.key, now)
  /\ StoreLive(cache, arg.key, now)
  /\ ret.out = "returned"
  /\ ret.value = Null

\* the two versions of determineOnuStatus
StatusOps == {"determineOnuStatus", "determineOnuStatus.trim"}

\* what the version just called returns for a status string, with no lastDownCause
StatusOf(op, statusString) ==
  IF op = "determineOnuStatus" THEN DetermineOnuStatus(statusString, JsNull)
  ELSE DetermineOnuStatusTrimmed(statusString)

\* the status string of the latest call is made of the given words, in any case
Spells(ws) == arg.statusString.kind = "string" /\ arg.words = ws

\* the status string of the latest call holds none of the four status words
Unrecognised == arg.statusString.kind = "string" /\ \A i \in DOMAIN arg.words : arg.words[i] \in FillerWords

\* C19: determineOnuStatus returns one of the four statuses for every string
\* and for null, undefined and the empty string; 'Offline' for absent and for
\* unrecognised input; Online for 'online', LOS for 'los-detected', Power Fail
\* for 'power fail', Offline for 'garbage'; and the same status for every
\* letter case of its input
C19_StatusTotal ==
  ret.op \in StatusOps =>
    /\ ret.out \in Statuses
    /\ (arg.lastDownCause = JsNull) =>
         /\ Falsy(arg.statusString) => ret.out = "Offline"
         /\ Unrecognised => ret.out = "Offline"
         /\ Spells(<<S_online>>) => ret.out = "Online"
         /\ Spells(<<S_los, T_detected>>) => ret.out = "LOS"
         /\ Spells(<<S_power, T_space, T_fail>>) => ret.out = "Power Fail"
         /\ Spells(<<T_garbage>>) => ret.out = "Offline"
         /\ arg.statusString.kind = "string" =>
              \A c \in Cases :
                StatusOf(ret.op, JsString(InCase(Concat(arg.words), c))) = ret.out

\* 'LOS-DETECTED', in capitals, was classified LOS
C19_Witness ==
  /\ ret.op = "determineOnuStatus"
  /\ Spells(<<S_los, T_detected>>)
  /\ arg.case = "UPPER"
  /\ arg.lastDownCause = JsNull
  /\ ret.out = "LOS"

\* C20: every raw status string that contains 'power', in any letter case, is
\* classified Power Fail
C20_PowerMeansPowerFail ==
  (ret.op \in StatusOps /\ arg.statusString.kind = "string"
     /\ \E i \in DOMAIN arg.words : arg.words[i] = S_power)
    => ret.out = "Power Fail"

\* the names of the two transition logs
Logs == {"recentLos", "recentPowerFail"}

\* C16: trackStatusChange(onu, B, A) with B # A puts exactly one event with
\* old_status A and new_status B in the LOS log when B is 'LOS', in the Power
\* Fail log when B is 'Power Fail', in neither otherwise, and leaves the other
\* log as it was; with B = A it leaves both logs as they were
C16_OneEventPerChange ==
  [][ret'.op = "trackStatusChange" =>
       LET A == arg'.oldStatus
           B == arg'.newStatus
           AddedTo(log) ==
             /\ statusHistory'[log] # <<>>
             /\ statusHistory'[log][1].unique_external_id = arg'.onu.unique_external_id
             /\ statusHistory'[log][1].old_status = A
             /\ statusHistory'[log][1].new_status = B
             /\ Tail(statusHistory'[log]) = statusHistory[log]
       IN /\ (B # A /\ B = "LOS") =>
               AddedTo("recentLos") /\ statusHistory'.recentPowerFail = statusHistory.recentPowerFail
          /\ (B # A /\ B = "Power Fail") =>
               AddedTo("recentPowerFail") /\ statusHistory'.recentLos = statusHistory.recentLos
          /\ (B = A \/ B \notin {"LOS", "Power Fail"}) => statusHistory' = statusHistory]_vars

\* a change from LOS to Power Fail was logged while the LOS log held an event
C16_Witness ==
  /\ ret.op = "trackStatusChange"
  /\ arg.newStatus = "Power Fail"
  /\ arg.oldStatus = "LOS"
  /\ statusHistory.recentPowerFail # <<>>
  /\ statusHistory.recentPowerFail[1].old_status = "LOS"
  /\ statusHistory.recentLos # <<>>

\* C17: each transition log holds at most 50 events, newest first, and they are
\* the most recent ones it was given: once it is full, a new event evicts
\* exactly the oldest
C17_LogsHoldMostRecent ==
  \A log \in Logs :
    /\ Len(statusHistory[log]) <= 50
    /\ Len(statusHistory[log]) = (IF appended[log] < 50 THEN appended[log] ELSE 50)
    /\ \A i \in DOMAIN statusHistory[log] :
         statusHistory[log][i].seq = appended[log] - i + 1

\* after 60 changes to LOS the LOS log holds the events 11 to 60
C17_Witness ==
  /\ appended.recentLos = 60
  /\ Len(statusHistory.recentLos) = 50
  /\ statusHistory.recentLos[1].seq = 60
  /\ statusHistory.recentLos[50].seq = 11

\* C18: getStatusHistory returns the first min(20, length) events of each log,
\* most recent first, and leaves the logs as they were; emptying the arrays it
\* returned leaves the logs as they were too
C18_HistoryReadOnly ==
  [][/\ ret'.op = "getStatusHistory" =>
          /\ statusHistory' = statusHistory
          /\ \A log \in Logs :
               LET returned == IF log = "recentLos" THEN ret'.value[1].recent_los
                               ELSE ret'.value[1].recent_power_fail
                   n == IF Len(statusHistory[log]) < 20 THEN Len(statusHistory[log]) ELSE 20
               IN returned = [i \in 1..n |-> statusHistory[log][i]]
     /\ ret'.op = "clearReturned" => statusHistory' = statusHistory]_vars

\* the arrays returned for logs of more than 20 events were emptied
C18_Witness ==
  /\ ret.op = "clearReturned"
  /\ Len(statusHistory.recentLos) > 20
  /\ Len(statusHistory.recentPowerFail) > 20

\* C14: when the cache holds an unexpired entry for the key of the request,
\* getAllOnusWithDetails, getOnusWithGps and getOnuById return that entry and
\* issue no upstream request: the quota lists, lastCallTime, the cache with its
\* per-device status entries and both transition logs stay as they were
C14_HitChangesNothing ==
  [][(ret'.op \in OnuOps /\ arg'.step = "call" /\ StoreLive(cache, arg'.key, now))
       => /\ ret'.out = "cached"
          /\ ret'.value = <<cache[arg'.key].v>>
          /\ UNCHANGED <<lastCallTime, callCounts, pc, job, deadline, issued>>
          /\ cache' = cache
          /\ statusHistory' = statusHistory]_vars

\* getOnuById was answered from the cache after its three upstream requests
C14_Witness ==
  /\ ret.op = "getOnuById"
  /\ ret.out = "cached"
  /\ Len(issued) = 3
  /\ callCounts = [c \in Restricted |-> <<>>]

\* the two filter objects hold the same option/value pairs
SamePairs(f, g) == {f[i] : i \in DOMAIN f} = {g[i] : i \in DOMAIN g}

\* C15: a request of getAllOnusWithDetails or getOnusWithGps is a cache hit
\* when the cache holds an unexpired entry that a request with the same
\* option/value pairs, inserted in any order, produced
C15_KeyIgnoresInsertionOrder ==
  [][(ret'.op \in {"getAllOnusWithDetails", "getOnusWithGps"} /\ arg'.step = "call"
        /\ \E f \in FilterObjects :
             SamePairs(f, arg'.x) /\ StoreLive(cache, CacheKey(ret'.op, f), now))
       => ret'.out = "cached"]_vars

\* C21: determineOnuStatus classifies 'working' and 'up' as Online, 'loss of
\* signal' as LOS, and 'powerfail', 'dying-gasp' and 'dyinggasp' as Power Fail
C21_SynonymsRecognised ==
  (ret.op \in StatusOps /\ arg.lastDownCause = JsNull) =>
    /\ (Spells(<<T_working>>) \/ Spells(<<T_up>>)) => ret.out = "Online"
    /\ Spells(<<T_loss_of_signal>>) => ret.out = "LOS"
    /\ (Spells(<<T_powerfail>>) \/ Spells(<<S_dying_gasp>>) \/ Spells(<<T_dyinggasp>>))
         => ret.out = "Power Fail"

\* the status string of the latest call is absent: null or undefined
Absent == arg.statusString \in {JsNull, JsUndefined}

\* the lastDownCause of the latest call contains the given text, in any case
CauseHas(text) ==
  arg.lastDownCause.kind = "string" /\ Includes(ToLowerCase(arg.lastDownCause.text), text)

\* C22: when the status string is absent or matches no status rule,
\* determineOnuStatus classifies by lastDownCause: LOS for a cause containing
\* 'los' or 'signal', Power Fail for one containing 'power' or 'dying-gasp'
C22_CauseIsFallback ==
  (ret.op = "determineOnuStatus" /\ (Absent \/ Unrecognised)) =>
    /\ (CauseHas(S_los) \/ CauseHas(S_signal)) => ret.out = "LOS"
    /\ (~(CauseHas(S_los) \/ CauseHas(S_signal))
          /\ (CauseHas(S_power) \/ CauseHas(S_dying_gasp))) => ret.out = "Power Fail"

\* ---------------------------------------------------------------------
\* The location-aware listing and the grouping by splitter box, in the two
\* versions of the service: services/onuService.js asks the GPS endpoint and
\* combines three responses; the later version filters the details response.

Versions == {"onuService.js", "later"}

\* coordinates as the upstream sends them
C_lat == JsString(<<"-", "7", ".", "1">>)
C_lng == JsString(<<"1", "1", "0", ".", "8">>)
C_zero == JsString(<<"0">>)
C_abc == JsString(<<"a", "b", "c">>)
C_twelve == JsString(<<"1", "2">>)
CoordPairs ==
  {<<C_lat, C_lng>>, <<C_zero, C_zero>>, <<C_abc, C_twelve>>, <<C_lat, JsUndefined>>,
   <<C_zero, C_lng>>}

OdbNames == {"A", "B", ""}
Ids == <<"d1", "d2", "d3", "d4">>

\* a device of an upstream list
GeoOnu(id, odb, pair) ==
  [unique_external_id |-> id, name |-> "", odb_name |-> odb,
   latitude |-> pair[1], longitude |-> pair[2],
   status |-> JsString(InCase(S_online, "Capital"))]

\* the upstream lists: up to max devices
GeoLists(max) ==
  UNION {{[i \in 1..n |-> GeoOnu(Ids[i], f[i][1], f[i][2])] :
            f \in [1..n -> OdbNames \X CoordPairs]} : n \in 0..max}

\* onu.latitude ? parseFloat(onu.latitude) : null
ParsedOrNull(x) == IF Falsy(x) THEN NoNumber ELSE ParseFloat(x)

\* lat && lng && !isNaN(lat) && !isNaN(lng) && lat !== 0 && lng !== 0
ValidPair(lat, lng) ==
  /\ NumberTruthy(lat) /\ NumberTruthy(lng)
  /\ ~IsNaN(lat) /\ ~IsNaN(lng)
  /\ ~(lat.is = "number" /\ lat.tenths = 0) /\ ~(lng.is = "number" /\ lng.tenths = 0)

\* the filter of the later getOnusWithGps
HasValidCoordinates(onu) ==
  ValidPair(ParsedOrNull(onu.latitude), ParsedOrNull(onu.longitude))

\* onus.filter(...) of the later getOnusWithGps
RECURSIVE WithValidCoordinates(_)
WithValidCoordinates(onus) ==
  IF onus = <<>> THEN <<>>
  ELSE (IF HasValidCoordinates(Head(onus)) THEN <<Head(onus)>> ELSE <<>>)
       \o WithValidCoordinates(Tail(onus))

\* the entry of the result of the later getOnusWithGps for one device
LaterGpsItem(onu) ==
  LET status == DetermineOnuStatusTrimmed(onu.status)
  IN [unique_external_id |-> onu.unique_external_id, name |-> onu.name,
      odb_name |-> onu.odb_name, status |-> status,
      status_color |-> GetStatusColor(status), raw_status |-> onu.status,
      latitude |-> ParseFloat(onu.latitude), longitude |-> ParseFloat(onu.longitude)]

\* the status bookkeeping of the later version over a list, in list order
RECURSIVE TrackAll(_, _)
TrackAll(s, onus) ==
  IF onus = <<>> THEN s
  ELSE TrackAll(TrackAndCache(s, Head(onus), DetermineOnuStatusTrimmed(Head(onus).status)),
                Tail(onus))

\* statusMap of services/onuService.js, from the status response
StatusMapOf(list) ==
  [id \in {list[i].unique_external_id : i \in DOMAIN list} |->
     (list[CHOOSE i \in DOMAIN list : list[i].unique_external_id = id]).status]

\* the list getOnusWithGps builds from what the upstream answers, and the
\* service after the bookkeeping that goes with it
GpsBuilt(s, version, list) ==
  IF version = "later"
  THEN LET kept == WithValidCoordinates(list)
       IN [svc |-> TrackAll(s, kept), onus |-> [i \in DOMAIN kept |-> LaterGpsItem(kept[i])]]
  ELSE [svc |-> s, onus |-> [i \in DOMAIN list |-> GpsItem(list[i], list, StatusMapOf(list))]]

\* getOnusWithGps({}) with the upstream answering every request with the
\* devices of list: the cached list, or the list built and cached
GpsFetched(s, version, list) ==
  LET key == CacheKey("getOnusWithGps", <<>>)
      cached == CacheGetResult(s.cache, key, now, FALSE).value
      s0 == [s EXCEPT !.cache = StoreAfterGet(@, key, now)]
      built == GpsBuilt(s0, version, list)
  IN IF Hit(cached) THEN [svc |-> s0, onus |-> cached[1].val, out |-> "cached"]
     ELSE [svc |-> SvcSet(built.svc, key, Obj(built.onus), ttlGps), onus |-> built.onus,
           out |-> "returned"]

\* onu.odb_name || 'Unknown', 'Unknown ODB' in the later version
OdbNameOf(version, onu) ==
  IF onu.odb_name # "" THEN onu.odb_name
  ELSE IF version = "later" THEN "Unknown ODB" ELSE "Unknown"

\* the forEach of getOnusByOdb on one device that always opens a group
Grouped_NoMerge(version, groups, onu) ==
  Append(groups, [odb_name |-> OdbNameOf(version, onu), onus |-> <<onu>>])

\* the forEach of getOnusByOdb on one device: open the group of its name if
\* there is none, push the device
Grouped(version, groups, onu) ==
  LET odbName == OdbNameOf(version, onu)
  IN IF \E g \in DOMAIN groups : groups[g].odb_name = odbName
     THEN [g \in DOMAIN groups |->
             IF groups[g].odb_name = odbName
             THEN [groups[g] EXCEPT !.onus = Append(@, onu)] ELSE groups[g]]
     ELSE Append(groups, [odb_name |-> odbName, onus |-> <<onu>>])

\* Object.values(odbGroups) after the forEach: the groups in the order they
\* were opened
RECURSIVE OdbGroups(_, _, _)
OdbGroups(version, groups, onus) ==
  IF onus = <<>> THEN groups
  ELSE OdbGroups(version, Grouped(version, groups, Head(onus)), Tail(onus))

\* the service about to be asked for the devices of an upstream list
\* the calls: a version of the service and what the upstream holds
GeoArgs(max) == {[version |-> v, list |-> l] : v \in Versions, l \in GeoLists(max)}

InitGps == InitBase /\ Configured /\ arg \in GeoArgs(MaxDevices)

\* what a call that fetched its list leaves and returns; a call that went
\* upstream is one of the MaxMisses of a run
Served(op, f, value) ==
  /\ f.out = "returned" => misses < MaxMisses
  /\ InstallSvc(f.svc)
  /\ misses' = IF f.out = "returned" THEN misses + 1 ELSE misses
  /\ ret' = Ret(op, 0, "none", f.out, Undefined, <<Obj(value)>>, 0)

\* onuService.getOnusWithGps({})
GetOnusWithGps ==
  LET f == GpsFetched(Svc, arg.version, arg.list)
  IN /\ Served("getOnusWithGps", f, f.onus)
     /\ UNCHANGED <<now, arg>>

\* onuService.getOnusByOdb({})
GetOnusByOdb ==
  LET f == GpsFetched(Svc, arg.version, arg.list)
  IN /\ Served("getOnusByOdb", f, OdbGroups(arg.version, <<>>, f.onus))
     /\ UNCHANGED <<now, arg>>

NextGps == GetOnusWithGps \/ GetOnusByOdb

SpecGps == InitGps /\ [][NextGps]_vars

\* ---------------------------------------------------------------------
\* The statistics of the later version of the service, a reduction over the
\* list of its getAllOnusWithDetails.

\* the names a device carries: OLT, zone, splitter box
NameTriples == {<<"OLT1", "Z1", "A">>, <<"", "Z2", "A">>}
StatCoordPairs == {<<C_lat, C_lng>>, <<C_zero, C_zero>>, <<C_lat, JsUndefined>>}
StatStatuses == RawStatuses \cup {JsUndefined}

\* a device of the details response
StatOnu(id, raw, pair, names) ==
  [unique_external_id |-> id, name |-> "", olt_name |-> names[1], zone_name |-> names[2],
   odb_name |-> names[3], latitude |-> pair[1], longitude |-> pair[2], status |-> raw]

StatLists(max) ==
  UNION {{[i \in 1..n |-> StatOnu(Ids[i], f[i][1], f[i][2], f[i][3])] :
            f \in [1..n -> StatStatuses \X StatCoordPairs \X NameTriples]} : n \in 0..max}

\* the entry of the result of the later getAllOnusWithDetails for one device
LaterAllItem(onu) ==
  LET status == DetermineOnuStatusTrimmed(onu.status)
  IN [unique_external_id |-> onu.unique_external_id, name |-> onu.name,
      olt_name |-> onu.olt_name, zone_name |-> onu.zone_name, odb_name |-> onu.odb_name,
      status |-> status, status_color |-> GetStatusColor(status), raw_status |-> onu.status,
      latitude |-> ParsedOrNull(onu.latitude), longitude |-> ParsedOrNull(onu.longitude)]

\* the later getAllOnusWithDetails({}) with the upstream answering with the
\* devices of list: the cached list, or the list built and cached
AllFetched(s, list) ==
  LET key == CacheKey("getAllOnusWithDetails", <<>>)
      cached == CacheGetResult(s.cache, key, now, FALSE).value
      s0 == [s EXCEPT !.cache = StoreAfterGet(@, key, now)]
      onus == [i \in DOMAIN list |-> LaterAllItem(list[i])]
  IN IF Hit(cached) THEN [svc |-> s0, onus |-> cached[1].val, out |-> "cached"]
     ELSE [svc |-> SvcSet(TrackAll(s0, list), key, Obj(onus), ttlOnuDetails), onus |-> onus,
           out |-> "returned"]

\* the counters getStatistics starts from
EmptyStats(onus) ==
  [total |-> Len(onus), online |-> 0, los |-> 0, power_fail |-> 0, offline |-> 0,
   with_gps |-> 0, without_gps |-> 0, by_olt |-> <<>>, by_zone |-> <<>>, by_odb |-> <<>>]

\* the switch on onu.status without its case 'Offline'
StatusCounted_NoOffline(stats, status) ==
  CASE status = "Online" -> [stats EXCEPT !.online = @ + 1]
    [] status = "LOS" -> [stats EXCEPT !.los = @ + 1]
    [] status = "Power Fail" -> [stats EXCEPT !.power_fail = @ + 1]
    [] OTHER -> stats

\* the switch on onu.status
StatusCounted(stats, status) ==
  CASE status = "Online" -> [stats EXCEPT !.online = @ + 1]
    [] status = "LOS" -> [stats EXCEPT !.los = @ + 1]
    [] status = "Power Fail" -> [stats EXCEPT !.power_fail = @ + 1]
    [] status = "Offline" -> [stats EXCEPT !.offline = @ + 1]
    [] OTHER -> stats

\* if (onu.latitude && onu.longitude) stats.with_gps++ else stats.without_gps++
GpsCounted(stats, onu) ==
  IF NumberTruthy(onu.latitude) /\ NumberTruthy(onu.longitude)
  THEN [stats EXCEPT !.with_gps = @ + 1]
  ELSE [stats EXCEPT !.without_gps = @ + 1]

\* one breakdown after a device: the entry of its name, 'Unknown' without
\* one, opened at zero if new, total and online or offline incremented
Broken(table, name, status) ==
  LET key == OrUnknown(name)
      entry == IF key \in DOMAIN table THEN table[key]
               ELSE [total |-> 0, online |-> 0, offline |-> 0]
      counted == IF status = "Online"
                 THEN [entry EXCEPT !.total = @ + 1, !.online = @ + 1]
                 ELSE [entry EXCEPT !.total = @ + 1, !.offline = @ + 1]
  IN [k \in DOMAIN table \cup {key} |-> IF k = key THEN counted ELSE table[k]]

\* the forEach of getStatistics on one device
Counted(stats, onu) ==
  [GpsCounted(StatusCounted(stats, onu.status), onu) EXCEPT
     !.by_olt = Broken(@, onu.olt_name, onu.status),
     !.by_zone = Broken(@, onu.zone_name, onu.status),
     !.by_odb = Broken(@, onu.odb_name, onu.status)]

\* the forEach of getStatistics
RECURSIVE Reduced(_, _)
Reduced(stats, onus) ==
  IF onus = <<>> THEN stats ELSE Reduced(Counted(stats, Head(onus)), Tail(onus))

\* the statistics of a list
Statistics(onus) == Reduced(EmptyStats(onus), onus)

\* the later version about to be asked about the devices of a details response
InitStats == InitBase /\ Configured /\ arg \in {[version |-> "later", list |-> l] : l \in StatLists(MaxDevices)}

\* onuService.getAllOnusWithDetails({}), later version
GetAllOnusWithDetailsLater ==
  LET f == AllFetched(Svc, arg.list)
  IN /\ Served("getAllOnusWithDetails", f, f.onus)
     /\ UNCHANGED <<now, arg>>

\* onuService.getStatistics({})
GetStatistics ==
  LET f == AllFetched(Svc, arg.list)
  IN /\ Served("getStatistics", f, Statistics(f.onus))
     /\ UNCHANGED <<now, arg>>

NextStats == GetAllOnusWithDetailsLater \/ GetStatistics

SpecStats == InitStats /\ [][NextStats]_vars

\* ---------------------------------------------- passes over the devices

\* the two operations that keep the per-device status entries:
\* getAllOnusWithDetails of services/onuService.js and the later getOnusWithGps
PassOps == {"getAllOnusWithDetails", "getOnusWithGps"}

\* a device of the details response of a pass
PassOnu(id, raw, pair) == [GeoOnu(id, "A", pair) EXCEPT !.status = raw]

\* what the upstream holds at a pass: device d1, which has coordinates, online
\* or without signal, alone, or without power and with device d2, which has
\* no coordinates
PassLists ==
  {<<PassOnu("d1", raw, <<C_twelve, C_twelve>>)>> :
     raw \in {JsString(InCase(S_online, "Capital")), JsString(ToUpperCase(S_los))}}
    \cup {<<PassOnu("d1", JsString(InCase(S_power_fail, "Capital")), <<C_twelve, C_twelve>>),
            PassOnu("d2", JsString(ToUpperCase(S_los)), <<C_zero, C_zero>>)>>}

\* the call of a pass: the cached list, or the wait for the upstream; the
\* requests themselves and the gate they pass are left to SpecFetch
BeginPass(op) ==
  LET key == CacheKey(op, <<>>)
      cached == CacheGetResult(cache, key, now, FALSE).value
      s0 == [Svc EXCEPT !.cache = StoreAfterGet(@, key, now)]
  IN /\ arg' = [step |-> "call", op |-> op, key |-> key, list |-> <<>>]
     /\ IF Hit(cached)
        THEN /\ InstallSvc(s0)
             /\ ret' = Ret(op, 0, "none", "cached", Undefined, cached, 0)
             /\ UNCHANGED misses
        ELSE /\ misses < MaxPasses
             /\ FreeSlots # {}
             /\ InstallSvc([s0 EXCEPT !.call[Slot(1)] =
                              [NoCall EXCEPT !.op = op, !.stage = Stages(op), !.lead = Slot(1)]])
             /\ misses' = misses + 1
             /\ ret' = Ret(op, Slot(1), "none", "awaiting", Undefined, Null, 0)
     /\ UNCHANGED now

\* the service after the pass of call p over the devices of list, and the
\* list the pass builds
PassBuilt(s, op, list) ==
  IF op = "getOnusWithGps" THEN GpsBuilt(s, "later", list)
  ELSE [svc |-> ProcessOnus(s, list, StatusMapOf(list)),
        onus |-> [i \in DOMAIN list |-> AllItem(list[i], StatusMapOf(list))]]

\* the last response of call p arrives with the devices of list: the pass
\* over the devices, and the result cached
FinishPass(p, list) ==
  LET op == call[p].op
      key == CacheKey(op, <<>>)
      built == PassBuilt([Svc EXCEPT !.call[p] = NoCall], op, list)
  IN /\ op \in PassOps
     /\ InstallSvc(SvcSet(built.svc, key, Obj(built.onus),
                          IF op = "getOnusWithGps" THEN ttlGps ELSE ttlOnuDetails))
     /\ arg' = [step |-> "response", op |-> op, key |-> key, list |-> list]
     /\ ret' = Ret(op, p, "none", "returned", Undefined, <<Obj(built.onus)>>, 0)
     /\ UNCHANGED <<now, misses>>

\* a request of call p fails: the operation throws
FailPass(p) ==
  /\ call[p].op \in PassOps
  /\ InstallSvc([Svc EXCEPT !.call[p] = NoCall])
  /\ arg' = [step |-> "response", op |-> call[p].op, key |-> CacheKey(call[p].op, <<>>),
             list |-> <<>>]
  /\ ret' = Ret(call[p].op, p, "none", "threw", Undefined, Null, 0)
  /\ UNCHANGED <<now, misses>>

NextPass ==
  \/ Advance
  \/ \E op \in PassOps : BeginPass(op)
  \/ \E p \in Procs, list \in PassLists : FinishPass(p, list)
  \/ \E p \in Procs : FailPass(p)

SpecPass == Init /\ [][NextPass]_vars

\* ------------------------------- the two listings over a failing upstream

\* the two operations that walk the devices, each asking the upstream itself
LaterOps == {"getAllOnusWithDetails", LaterGps}

\* the later getOnusWithGps goes on after the response to its one request:
\* it throws with makeRequest and on a body without status or onus, and
\* otherwise filters, tracks and caches
ContinuedLater(s, p, outcome, list) ==
  LET c == s.call[p]
      done == [s EXCEPT !.call[p] = NoCall]
      built == GpsBuilt(done, "later", list)
  IN IF outcome # "ok" THEN done
     ELSE SvcSet(built.svc, CacheKey(c.op, c.x), Obj(built.onus), ttlGps)

\* getAllOnusWithDetails({}) or the later getOnusWithGps({}) up to its first
\* suspension
LaterList == \E op \in LaterOps : OnuCall(op, <<>>)

\* client.get settles for caller p on behalf of one of the two listings
LaterRespond(p, outcome, error, list, raw) ==
  LET c == call[p]
      s1 == [Svc EXCEPT !.lim = AfterResponse(@, p, outcome)]
      after == IF c.op = LaterGps THEN ContinuedLater(s1, p, outcome, list)
               ELSE Continued(s1, p, outcome, list, raw)
      out == RespondOut(s1, p, outcome, after)
  IN /\ pc[p] = "http"
     /\ c.op # "none"
     /\ InstallSvc(after)
     /\ arg' = [step |-> "response", op |-> c.op, x |-> c.x, key |-> CacheKey(c.op, c.x),
                stage |-> c.stage, outcome |-> outcome, error |-> error]
     /\ ret' = Ret(c.op, p, "none", out, Undefined,
                   IF out = "returned" THEN <<after.cache[CacheKey(c.op, c.x)].v>>
                   ELSE IF out = "threw" THEN <<Err(ThrownBy(c, outcome, error))>>
                   ELSE Null, 0)
     /\ UNCHANGED <<now, misses>>

\* what the upstream answers to the request a listing awaits
LaterListsFor(c, outcome) ==
  IF outcome # "ok" THEN {<<>>}
  ELSE IF c.op = LaterGps THEN PassLists
  ELSE IF c.stage = 1 THEN OnuLists ELSE {<<>>}

LaterRawsFor(c, outcome) ==
  IF c.op = LaterGps THEN NoRaws ELSE RawsFor(c, outcome)

NextLater ==
  \/ Advance
  \/ LaterList
  \/ \E p \in Procs : Wake(p)
  \/ \E p \in {q \in Procs : pc[q] = "http"}, outcome \in FetchOutcomes :
       \E error \in ErrorsFor(outcome), list \in LaterListsFor(call[p], outcome),
          raw \in LaterRawsFor(call[p], outcome) :
         LaterRespond(p, outcome, error, list, raw)

SpecLater == Init /\ [][NextLater]_vars

\* a coordinate the upstream did not send, or sent empty
MissingCoordinate(x) == x.kind # "string" \/ x.text = <<>>

\* a coordinate that parses as a number
NumericCoordinate(x) == ~MissingCoordinate(x) /\ ParseFloat(x).is = "number"

\* a coordinate that parses as zero
ZeroCoordinate(x) == NumericCoordinate(x) /\ ParseFloat(x).tenths = 0

\* the device is in a list of result entries
Listed(onu, result) ==
  \E j \in DOMAIN result : result[j].unique_external_id = onu.unique_external_id

\* C23: the list getOnusWithGps returns leaves out a device whose coordinates
\* are (0,0), or whose latitude or longitude is missing or does not parse as a
\* number, and holds every device with two non-zero numeric coordinates
C23_ListHoldsUsableCoordinates ==
  ret.op = "getOnusWithGps" =>
    \A i \in DOMAIN arg.list :
      LET onu == arg.list[i]
          lat == onu.latitude
          lng == onu.longitude
      IN /\ (\/ ZeroCoordinate(lat) /\ ZeroCoordinate(lng)
             \/ ~NumericCoordinate(lat)
             \/ ~NumericCoordinate(lng)) => ~Listed(onu, ret.value[1].val)
         /\ (/\ NumericCoordinate(lat) /\ ~ZeroCoordinate(lat)
             /\ NumericCoordinate(lng) /\ ~ZeroCoordinate(lng)) => Listed(onu, ret.value[1].val)

\* the list getOnusWithGps returned inside the latest getOnusByOdb
GpsList == cache[CacheKey("getOnusWithGps", <<>>)].v.val

\* the groups the latest getOnusByOdb returned
Groups == ret.value[1].val

\* the groups that hold a device
GroupsOf(onu) == {g \in DOMAIN Groups : Listed(onu, Groups[g].onus)}

Stats == ret.value[1].val

\* the sum of the totals of the entries of a breakdown
RECURSIVE TotalOver(_, _)
TotalOver(table, keys) ==
  IF keys = {} THEN 0
  ELSE LET k == CHOOSE x \in keys : TRUE IN table[k].total + TotalOver(table, keys \ {k})

\* every entry of a breakdown is split into online and offline, and the
\* entries add up to the overall total
Balanced(table) ==
  /\ \A k \in DOMAIN table : table[k].total = table[k].online + table[k].offline
  /\ TotalOver(table, DOMAIN table) = Stats.total

ByIdKey == CacheKey("getOnuById", <<"d1">>)

\* the step is the response to request number stage of a getOnuById that no
\* response has failed so far
ByIdResponse(stage) ==
  /\ ret'.op = "getOnuById"
  /\ arg'.step = "response"
  /\ arg'.stage = stage
  /\ ~call[call[ret'.proc].lead].failed

\* C26: when the signal request of getOnuById fails, by a thrown error or a
\* failure envelope, and the details request succeeded, the lookup does not
\* fail: it returns and caches the record of the device with signal = null
C26_SignalFailureTolerated ==
  [][(ByIdResponse(3) /\ Rejected(arg'.outcome) /\ call[call[ret'.proc].lead].acc2[1])
       => /\ ret'.out \in {"awaiting", "returned"}
          /\ ret'.out = "returned"
               => /\ ret'.value[1].val.signal = Null
                  /\ StoreLive(cache', ByIdKey, now)
                  /\ cache'[ByIdKey].v = ret'.value[1]]_vars

\* the details of the lookup the step belongs to carry a status
DetailsOk ==
  IF arg'.stage = 1 THEN arg'.outcome = "ok" ELSE call[call[ret'.proc].lead].acc2[1]

\* C27: getOnuById throws when its details request reports failure and writes
\* no entry under onu_detail_<id>, so that the next call goes upstream again;
\* the entry of a successful lookup is stored with ttl.onuStatus
C27_FailedLookupLeavesNoEntry ==
  [][/\ (ByIdResponse(1) /\ Rejected(arg'.outcome))
          => ret'.out = "threw" /\ cache' = cache /\ written' = written
     /\ (\E n \in 1..3 : ByIdResponse(n) /\ ~Rejected(arg'.outcome)
                           /\ call[call[ret'.proc].lead].left = 1 /\ ~DetailsOk)
          => ret'.out = "threw"
     /\ (ret'.op = "getOnuById" /\ arg'.step = "response"
           /\ (cache' # cache \/ written' # written))
          => /\ DetailsOk
             /\ ret'.out = "returned"
             /\ written' = WrittenSet(written, ByIdKey, ret'.value[1], ttlOnuStatus, now, FALSE)
             /\ StoreLive(cache', ByIdKey, now)
             /\ cache'[ByIdKey].v = ret'.value[1]
     /\ (ret'.op = "getOnuById" /\ arg'.step = "call" /\ ~StoreLive(cache, ByIdKey, now))
          => /\ ret'.out = "awaiting"
             /\ Cardinality({p \in Procs : pc[p] = "idle" /\ pc'[p] # "idle"}) = 3]_vars

\* a lookup went upstream after the details request of the lookup before it
\* came back as a failure envelope, with no entry written for the device
C27_Witness ==
  /\ ret.op = "getOnuById"
  /\ arg.step = "call"
  /\ ret.out = "awaiting"
  /\ ByIdKey \notin DOMAIN written
  /\ \E i \in DOMAIN issued : issued[i].proc = 1 /\ issued[i].state = "statusFalse"

\* the step is a response to a request of one of the two list operations that
\* came back as an empty body or as a failure envelope
FailureAnswered ==
  /\ ret'.op \in {"getAllOnusWithDetails", "getOnusWithGps"}
  /\ arg'.step = "response"
  /\ arg'.outcome \in {"empty", "statusFalse"}

FailedRequests(p) ==
  {i \in DOMAIN issued : issued[i].proc = p /\ issued[i].state = "transport"}

\* C29: makeRequest issues at most one upstream request per invocation: a
\* step issues at most one request, for a makeRequest that has none open, and
\* when the request fails in transport or times out the invocation ends by
\* throwing the cause, with no further request issued
C29_OneRequestPerInvocation ==
  [][/\ Len(issued') <= Len(issued) + 1
     /\ Len(issued') = Len(issued) + 1
          => /\ ret'.op = "makeRequest"
             /\ pc[ret'.proc] # "http"
             /\ pc'[ret'.proc] = "http"
             /\ issued'[Len(issued')] = [t |-> now, type |-> job'[ret'.proc],
                                         proc |-> ret'.proc, state |-> "open"]
     /\ (ret'.op = "makeRequest" /\ ret'.out = "transport")
          => /\ issued' = Settled(issued, ret'.proc, "transport")
             /\ pc'[ret'.proc] = "idle"
             /\ job'[ret'.proc] = "none"
             /\ \A q \in Procs \ {ret'.proc} : pc'[q] = pc[q]]_vars

\* two invocations in a row failed in transport, with one request each
C29_Witness ==
  /\ ret.op = "makeRequest"
  /\ ret.out = "transport"
  /\ Len(issued) = 2
  /\ \A i \in DOMAIN issued : issued[i].state = "transport"
  /\ \A p \in Procs : pc[p] = "idle"

\* C30: a network error is reported to the caller only after the failed
\* request was retried: when makeRequest throws it, an earlier request of the
\* same caller has failed too
C30_NetworkErrorRetried ==
  [][(ret'.op = "makeRequest" /\ ret'.out = "transport")
       => FailedRequests(ret'.proc) # {}]_vars

\* the calls of getAllOnusWithDetails that await their details request
AwaitingDetails ==
  {p \in Procs : call[p].op = "getAllOnusWithDetails" /\ call[p].stage = 1}

\* C31: identical requests are not coalesced: a getAllOnusWithDetails call that
\* finds no live entry for its filters, and the details quota not used up by
\* recorded calls, starts a details request of its own, also while a call
\* with the same filters awaits its own; each request that is answered is
\* recorded against the details quota
C31_IdenticalCallsNotCoalesced ==
  [][/\ (ret'.op = "getAllOnusWithDetails" /\ arg'.step = "call"
           /\ ~StoreLive(cache, arg'.key, now)
           /\ CanCallResult(callCounts, "details", now).allowed)
          => /\ ret'.out = "awaiting"
             /\ job'[ret'.proc] = "details"
             /\ pc'[ret'.proc] \in {"sleeping", "http"}
             /\ AwaitingDetails' = AwaitingDetails \cup {ret'.proc}
             /\ ret'.proc \notin AwaitingDetails
     /\ (ret'.op = "getAllOnusWithDetails" /\ arg'.step = "response" /\ arg'.stage = 1
           /\ arg'.outcome # "transport")
          => callCounts' = RecordCounts(callCounts, "details", now)]_vars

\* two calls with the same filters missed the cache, both details requests
\* were answered, and both are recorded although the limit is detailsLimit
C31_Witness ==
  /\ ret.op = "getAllOnusWithDetails"
  /\ arg.step = "response"
  /\ Len(callCounts["details"]) = 2
  /\ detailsLimit < 2
  /\ Cardinality({i \in DOMAIN issued : issued[i].type = "details"
                                         /\ issued[i].state \in {"ok", "noList"}}) = 2
  /\ \E p \in Procs : call[p].op = "getAllOnusWithDetails" /\ call[p].stage = 2
                        /\ call[p].x = arg.x

\* the request the step issues, if it issues one
NewRequest == issued'[Len(issued')]

\* the step adds a timestamp to the list of class c
Recorded(c) == \E i \in DOMAIN callCounts'[c] : i > Len(callCounts[c])

\* C32: a request of a restricted class passes both constraints in a fixed
\* order: it is issued by the step in which canCallEndpoint allows it and no
\* wait is due, or by the end of the sleep of a call that canCallEndpoint had
\* allowed, and waitForNextCall has then set lastCallTime; a call that
\* canCallEndpoint rejects neither waits nor issues a request; recordCall runs
\* only in the step that receives the response
C32_QuotaCheckThenWaitThenRecord ==
  [][/\ (Len(issued') = Len(issued) + 1 /\ NewRequest.type \in Restricted)
          => /\ lastCallTime' = now
             /\ \/ /\ ret'.out = "issued"
                   /\ CanCallResult(callCounts, NewRequest.type, now).allowed
                   /\ ~MustWait(now - lastCallTime)
                \/ /\ ret'.out = "resumed"
                   /\ pc[NewRequest.proc] = "sleeping"
                   /\ job[NewRequest.proc] = NewRequest.type
                   /\ now >= deadline[NewRequest.proc]
     /\ (ret'.op = "makeRequest" /\ ret'.out = "sleeping" /\ ret'.type \in Restricted)
          => /\ CanCallResult(callCounts, ret'.type, now).allowed
             /\ MustWait(now - lastCallTime)
             /\ issued' = issued
     /\ (ret'.op = "makeRequest" /\ ret'.out = "rateLimited")
          => /\ ~CanCallResult(callCounts, ret'.type, now).allowed
             /\ issued' = issued
             /\ lastCallTime' = lastCallTime
             /\ pc' = pc
     /\ \A c \in Restricted :
          Recorded(c)
            => /\ ret'.op = "makeRequest"
               /\ ret'.out \in {"returned", "empty", "statusFalse"}
               /\ pc[ret'.proc] = "http"
               /\ job[ret'.proc] = c
               /\ callCounts'[c] = Append(callCounts[c], now)]_vars

\* a gps request that had to sleep for the spacing was answered and recorded
C32_Witness ==
  /\ ret.op = "makeRequest"
  /\ ret.type = "gps"
  /\ ret.out = "returned"
  /\ callCounts["gps"] # <<>>
  /\ callCounts["gps"][Len(callCounts["gps"])] = now
  /\ \E i \in DOMAIN issued :
       /\ issued[i].proc = ret.proc /\ issued[i].type = "gps" /\ issued[i].state = "ok"
       /\ \E j \in 1..(i - 1) : issued[i].t = issued[j].t + apiDelay

\* the timestamps of a list that are less than 60 minutes old at t, as a set
StampsInWindow(list, t) == {list[i] : i \in InWindowIdx(list, t)}

\* the least of a set of timestamps
Oldest(S) == CHOOSE x \in S : \A y \in S : x <= y

Processed(op, list) == IF op = "getOnusWithGps" THEN WithValidCoordinates(list) ELSE list

\* the status a pass of an operation computes for a device
Computed(op, onu) ==
  IF op = "getOnusWithGps" THEN DetermineOnuStatusTrimmed(onu.status)
  ELSE DetermineOnuStatus(onu.status, JsNull)

\* the step is a cache-miss pass of one of the two operations over its devices
PassStep == ret'.op \in PassOps /\ arg'.step = "response" /\ ret'.out = "returned"

\* the status the unexpired per-device entry of a device holds, if there is one
HeldStatus(id) ==
  IF StoreLive(cache, StatusKey(id), now) THEN <<cache[StatusKey(id)].v.val>> ELSE <<>>

\* the events the step puts in a log
NewEvents(log) == SubSeq(statusHistory'[log], 1, appended'[log] - appended[log])

\* the step puts no event of device id in either log
NoEventOf(id) ==
  \A log \in Logs : \A k \in DOMAIN NewEvents(log) : NewEvents(log)[k].unique_external_id # id

ListingFailure ==
  /\ ret'.op \in LaterOps
  /\ arg'.step = "response" /\ Rejected(arg'.outcome)
FailedListing ==
  /\ ret.op \in LaterOps /\ ret.out = "threw"
  /\ arg.step = "response" /\ Rejected(arg.outcome)
C36_FailedPassChangesNothing ==
  [][/\ ListingFailure =>
          /\ ret'.out = "threw"
          /\ cache' = cache /\ written' = written
          /\ statusHistory' = statusHistory /\ appended' = appended
     /\ (FailedListing /\ arg.key \notin DOMAIN written
           /\ ret'.op = ret.op /\ arg'.step = "call") =>
          /\ ret'.out # "cached"
          /\ arg'.key = arg.key]_vars

\* the status request of a pass over two devices failed after an earlier pass
\* had stored statuses, and the later listing failed too
C36_Witness ==
  /\ FailedListing /\ arg.op = "getAllOnusWithDetails" /\ arg.stage = 2
  /\ arg.key \notin DOMAIN cache
  /\ StatusKey("d1") \in DOMAIN cache

\* C37: every event of the LOS log is a change to 'LOS' from another status,
\* every event of the Power Fail log a change to 'Power Fail' from another
\* status, and no event is in both logs
StatusOfLog(log) == IF log = "recentLos" THEN "LOS" ELSE "Power Fail"
C37_LogsHoldTheirOwnChanges ==
  /\ \A log \in Logs :
       \A i \in DOMAIN statusHistory[log] :
         /\ statusHistory[log][i].new_status = StatusOfLog(log)
         /\ statusHistory[log][i].old_status # StatusOfLog(log)
  /\ \A i \in DOMAIN statusHistory.recentLos :
       \A j \in DOMAIN statusHistory.recentPowerFail :
         statusHistory.recentLos[i] # statusHistory.recentPowerFail[j]

\* both logs hold events, and trackStatusChange was just called with two
\* equal statuses
C37_Witness ==
  /\ statusHistory.recentLos # <<>> /\ statusHistory.recentPowerFail # <<>>
  /\ ret.op = "trackStatusChange"
  /\ arg.newStatus = arg.oldStatus /\ arg.newStatus = "LOS"

\* C38: with the API key unset or left at 'your_api_key_here', makeRequest
\* throws the advice to configure API_KEY and nothing else happens: no quota
\* check prunes or counts a call, no caller waits, lastCallTime stays, and no
\* upstream request is issued
KeyRefused == apiKey = JsUndefined \/ apiKey = JsString(K_placeholder)
C38_InvalidKeyThrowsFirst ==
  [][(KeyRefused /\ ret'.op = "makeRequest") =>
       /\ ret'.out = "invalidKey"
       /\ ret'.value = <<Err(M_configure_key)>>
       /\ lastCallTime' = lastCallTime /\ callCounts' = callCounts
       /\ issued' = issued /\ pc' = pc /\ deadline' = deadline]_vars

\* makeRequest for the GPS endpoint threw under the placeholder key while the
\* GPS list held a call older than an hour, which a quota check would prune
C38_Witness ==
  /\ apiKey = JsString(K_placeholder)
  /\ ret.op = "makeRequest" /\ ret.out = "invalidKey" /\ ret.type = "gps"
  /\ callCounts["gps"] # <<>> /\ now - callCounts["gps"][1] >= Hour

\* C39: a caller suspended in waitForNextCall is resumed no later than
\* apiDelay after it was suspended, whatever the other callers do, and it is
\* resumed; every makeRequest under way comes to its end, given that
\* client.get settles
C39_WaitsAndRequestsEnd ==
  /\ [](\A p \in Procs :
          pc[p] = "sleeping" => now <= deadline[p] /\ deadline[p] <= now + apiDelay)
  /\ \A p \in Procs : (pc[p] = "sleeping") ~> (pc[p] # "sleeping")
  /\ \A p \in Procs : (pc[p] # "idle") ~> (pc[p] = "idle")

\* two callers are suspended at once, one of them in a makeRequest, after a
\* third has returned from its wait
C39_Witness ==
  /\ \E p, q \in Procs :
       /\ p # q /\ pc[p] = "sleeping" /\ pc[q] = "sleeping"
       /\ job[p] = "wait" /\ job[q] # "wait"
  /\ \E r \in Procs : waitLog[r] # <<>>

====
